---- MODULE Spec2Model ----
(***************************************************************************)
(* A model of the Foundry MCP server (src/src/index.ts, the revision that  *)
(* starts at line 775): the RPC URL resolver, the subprocess executor, the *)
(* background node monitor and the tool handlers that compose them.        *)
(*                                                                         *)
(* Strings are TLA+ strings; command lines are built by concatenation as   *)
(* the handlers build them.  An optional argument is <<>> when the caller  *)
(* leaves it unset (undefined) and <<v>> when it is supplied.              *)
(***************************************************************************)
EXTENDS Integers, Sequences, FiniteSets, TLC

VARIABLES
    envRpcUrl,      \* process.env.RPC_URL at load time ("" when unset or empty)
    envPrivateKey,  \* process.env.PRIVATE_KEY ("" when unset or empty)
    installed,      \* whether `forge --version` succeeds on this machine
    config,         \* ~/.foundry/config.toml on disk
    procs,          \* the operating system's process table (command lines)
    workspace,      \* the Forge workspace directory on disk
    calls,          \* tool calls: slot -> call record
    res,            \* the last resolveRpcUrl invocation (resolver specification)
    ex,             \* the last executeCommand invocation (executor specification)
    tree            \* the directories and files below the workspace root

vars == <<envRpcUrl, envPrivateKey, installed, config, procs, workspace, calls, res, ex, tree>>

(***************************************************************************)
(* Optional values and JavaScript truthiness                               *)
(***************************************************************************)
Undefined == <<>>
Some(v) == <<v>>
IsDef(o) == o # <<>>
Val(o) == o[1]
\* `if (s)` on an optional string: undefined and "" are both falsy
TruthyStr(o) == IsDef(o) /\ Val(o) # ""
\* `if (n)` on an optional number: undefined and 0 are both falsy
TruthyNum(o) == IsDef(o) /\ Val(o) # 0

(***************************************************************************)
(* String helpers                                                          *)
(***************************************************************************)
Ch(s, i) == SubSeq(s, i, i)
StartsWith(s, p) == Len(s) >= Len(p) /\ SubSeq(s, 1, Len(p)) = p
MatchesAt(s, p, i) == i >= 1 /\ i + Len(p) - 1 <= Len(s) /\ SubSeq(s, i, i + Len(p) - 1) = p
Includes(s, p) == \E i \in 1..(Len(s) - Len(p) + 1) : MatchesAt(s, p, i)
IsWs(c) == c \in {" ", "\t", "\n", "\r"}
IsQuote(c) == c \in {"\"", "'"}

RECURSIVE TrimLeft(_)
TrimLeft(s) == IF Len(s) > 0 /\ IsWs(Ch(s, 1)) THEN TrimLeft(SubSeq(s, 2, Len(s))) ELSE s
RECURSIVE TrimRight(_)
TrimRight(s) == IF Len(s) > 0 /\ IsWs(Ch(s, Len(s))) THEN TrimRight(SubSeq(s, 1, Len(s) - 1)) ELSE s
Trim(s) == TrimRight(TrimLeft(s))

RECURSIVE Join(_, _)
Join(seq, sep) ==
    IF Len(seq) = 0 THEN ""
    ELSE IF Len(seq) = 1 THEN seq[1]
    ELSE seq[1] \o sep \o Join(Tail(seq), sep)

(***************************************************************************)
(* Paths and constants of the server                                       *)
(***************************************************************************)
homeDir == "/home/u"
castPath == homeDir \o "/.foundry/bin/cast"
forgePath == homeDir \o "/.foundry/bin/forge"
anvilPath == homeDir \o "/.foundry/bin/anvil"
FOUNDRY_WORKSPACE == homeDir \o "/foundry-mcp-server/workspace"

HARDCODED_RPC_URL == "http://localhost:8545"

DEFAULT_RPC_URL_noEnv == HARDCODED_RPC_URL
\* const DEFAULT_RPC_URL = process.env.RPC_URL || "http://localhost:8545"
DEFAULT_RPC_URL == IF envRpcUrl # "" THEN envRpcUrl ELSE HARDCODED_RPC_URL

FOUNDRY_NOT_INSTALLED_ERROR ==
    "Foundry tools are not installed. Please install Foundry: https://book.getfoundry.sh/getting-started/installation"

(***************************************************************************)
(* The config file: a list of sections, each a list of key = "value"       *)
(* entries, rendered to the text the resolver reads.                       *)
(***************************************************************************)
MaxSections == 2
MaxEntries == 2

SectionNames == {"rpc_endpoints", "etherscan"}
Keys == {"mainnet", "my_mainnet", "sepolia"}

\* sequences of pairwise distinct elements of S, of length at most n
DistinctSeqs(S, n) ==
    UNION { { q \in [1..k -> S] : \A i, j \in 1..k : i # j => q[i] # q[j] } : k \in 0..n }

EntryValue(sec, key) == "https://" \o sec \o "/" \o key

Sections ==
    { [name |-> nm, keys |-> ks] : nm \in SectionNames, ks \in DistinctSeqs(Keys, MaxEntries) }

ConfigLayouts ==
    { q \in UNION { [1..k -> Sections] : k \in 0..MaxSections } :
        \A i, j \in DOMAIN q : i # j => q[i].name # q[j].name }

ConfigFiles ==
    { [exists |-> FALSE, readable |-> FALSE, sections |-> <<>>],
      [exists |-> TRUE, readable |-> FALSE, sections |-> <<>>] }
    \cup { [exists |-> TRUE, readable |-> TRUE, sections |-> l] : l \in ConfigLayouts }

RECURSIVE RenderEntries(_, _)
RenderEntries(sec, ks) ==
    IF Len(ks) = 0 THEN ""
    ELSE Head(ks) \o " = \"" \o EntryValue(sec, Head(ks)) \o "\"\n" \o RenderEntries(sec, Tail(ks))

RECURSIVE RenderSections(_)
RenderSections(secs) ==
    IF Len(secs) = 0 THEN ""
    ELSE "[" \o Head(secs).name \o "]\n" \o RenderEntries(Head(secs).name, Head(secs).keys)
         \o RenderSections(Tail(secs))

\* fs.readFile(configPath, "utf8")
configContent == RenderSections(config.sections)

(***************************************************************************)
(* new RegExp(`\\[rpc_endpoints\\][\\s\\S]*?${rpcUrl}\\s*=\\s*["']([^"']+)["']`) *)
(* The alias is spliced into the pattern unescaped: "." matches any        *)
(* character but a line terminator, and an unbalanced "(" makes the        *)
(* constructor throw a SyntaxError.  Other characters match themselves.    *)
(***************************************************************************)
CountOf(s, c) == Cardinality({ i \in 1..Len(s) : Ch(s, i) = c })
RegExpThrows(alias) == CountOf(alias, "(") # CountOf(alias, ")")

PatCharMatches(pc, c) == IF pc = "." THEN c \notin {"\n", "\r"} ELSE pc = c
AliasMatchesAt(s, alias, j) ==
    /\ j + Len(alias) - 1 <= Len(s)
    /\ \A k \in 1..Len(alias) : PatCharMatches(Ch(alias, k), Ch(s, j + k - 1))

\* first position >= k that holds no whitespace (Len(s) + 1 at the end)
SkipWs(s, k) ==
    CHOOSE m \in k..(Len(s) + 1) :
        /\ \A q \in k..(m - 1) : IsWs(Ch(s, q))
        /\ (m = Len(s) + 1 \/ ~IsWs(Ch(s, m)))
\* first position >= k that holds a quote (Len(s) + 1 at the end)
SkipNonQuote(s, k) ==
    CHOOSE m \in k..(Len(s) + 1) :
        /\ \A q \in k..(m - 1) : ~IsQuote(Ch(s, q))
        /\ (m = Len(s) + 1 \/ IsQuote(Ch(s, m)))

\* the least element of a non-empty set of positions
Least(S) == CHOOSE i \in S : \A i2 \in S : i <= i2

\* (["'])([^"']+)["'] with the opening quote at q1 and the next quote at q2
QuotedValue(s, q1, q2) ==
    IF q2 > Len(s) \/ q2 = q1 + 1 THEN <<>> ELSE <<SubSeq(s, q1 + 1, q2 - 1)>>
\* \s*["']([^"']+)["'] with the whitespace ending before q1
AfterEquals(s, q1) ==
    IF q1 > Len(s) \/ ~IsQuote(Ch(s, q1)) THEN <<>>
    ELSE QuotedValue(s, q1, SkipNonQuote(s, q1 + 1))
\* \s*=\s*["']([^"']+)["'] with the whitespace ending before e
AfterAlias(s, e) ==
    IF e > Len(s) \/ Ch(s, e) # "=" THEN <<>> ELSE AfterEquals(s, SkipWs(s, e + 1))
\* ALIAS\s*=\s*["']([^"']+)["'] matched with ALIAS starting at j:
\* <<>> when it does not match, <<group 1>> when it does
TailMatch(s, alias, j) ==
    IF ~AliasMatchesAt(s, alias, j) THEN <<>> ELSE AfterAlias(s, SkipWs(s, j + Len(alias)))

RpcHeader == "[rpc_endpoints]"

\* the lazy [\s\S]*? takes the first position from `from` on at which the
\* rest of the pattern matches
LazyMatch(content, alias, js) ==
    IF js = {} THEN <<>> ELSE TailMatch(content, alias, Least(js))
HeaderMatch(content, alias, from) ==
    LazyMatch(content, alias,
              { j \in from..(Len(content) + 1) : TailMatch(content, alias, j) # <<>> })
\* RegExp.exec / String.match: the leftmost header, then the rest
FirstHeader(content, alias, hs) ==
    IF hs = {} THEN <<>> ELSE HeaderMatch(content, alias, Least(hs) + Len(RpcHeader))
RpcMatch(content, alias) ==
    FirstHeader(content, alias, { i \in 1..Len(content) : MatchesAt(content, RpcHeader, i) })

(***************************************************************************)
(* resolveRpcUrl                                                           *)
(***************************************************************************)
\* The body of the try block: what it returns, or that it throws, or that
\* it runs to its end; together with the filesystem calls it made.
ResolveTry(rpcUrl) ==
    IF ~config.exists
    THEN [kind |-> "end", value |-> "", accessed |-> TRUE, read |-> FALSE]
    ELSE IF ~config.readable
    THEN [kind |-> "throw", value |-> "EACCES", accessed |-> TRUE, read |-> TRUE]
    ELSE IF RegExpThrows(rpcUrl)
    THEN [kind |-> "throw", value |-> "SyntaxError", accessed |-> TRUE, read |-> TRUE]
    ELSE LET rpcMatch == RpcMatch(configContent, rpcUrl) IN
         IF rpcMatch # <<>> /\ rpcMatch[1] # ""
         THEN [kind |-> "return", value |-> rpcMatch[1], accessed |-> TRUE, read |-> TRUE]
         ELSE [kind |-> "end", value |-> "", accessed |-> TRUE, read |-> TRUE]

ResolveOutcome_noCatch(rpcUrl) ==
    IF ~TruthyStr(rpcUrl)
    THEN [kind |-> "return", value |-> DEFAULT_RPC_URL, accessed |-> FALSE, read |-> FALSE]
    ELSE IF ~StartsWith(Val(rpcUrl), "http")
    THEN LET t == ResolveTry(Val(rpcUrl)) IN
         IF t.kind \in {"return", "throw"} THEN t
         ELSE [t EXCEPT !.kind = "return", !.value = Val(rpcUrl)]
    ELSE [kind |-> "return", value |-> Val(rpcUrl), accessed |-> FALSE, read |-> FALSE]

ResolveOutcome_envFirst(rpcUrl) ==
    IF ~TruthyStr(rpcUrl) \/ envRpcUrl # ""
    THEN [kind |-> "return", value |-> DEFAULT_RPC_URL, accessed |-> FALSE, read |-> FALSE]
    ELSE [kind |-> "return", value |-> Val(rpcUrl), accessed |-> FALSE, read |-> FALSE]

\* async function resolveRpcUrl(rpcUrl?: string): the outcome of one call
ResolveOutcome(rpcUrl) ==
    IF ~TruthyStr(rpcUrl)
    THEN [kind |-> "return", value |-> DEFAULT_RPC_URL, accessed |-> FALSE, read |-> FALSE]
    ELSE IF ~StartsWith(Val(rpcUrl), "http")
    THEN LET t == ResolveTry(Val(rpcUrl)) IN
         IF t.kind = "return" THEN t
         ELSE \* catch (error) { console.error(...) } and fall through
              [t EXCEPT !.kind = "return", !.value = Val(rpcUrl)]
    ELSE [kind |-> "return", value |-> Val(rpcUrl), accessed |-> FALSE, read |-> FALSE]

resolveRpcUrl(rpcUrl) == ResolveOutcome(rpcUrl).value

(***************************************************************************)
(* execAsync = promisify(exec): the ways a subprocess can end.  A process  *)
(* that exits zero resolves {stdout, stderr}; one that exits non-zero, or  *)
(* that cannot be spawned, rejects with an Error.                          *)
(***************************************************************************)
ExitCodes == {0, 1, 2, 127}
Stdouts == {"", "42\n", " 0x2a \n"}
Stderrs == {"", "warning: nightly build\n", "Error: connection refused\n"}
SpawnErrors == {"spawn /bin/sh ENOENT", "spawn EACCES"}

ProcessOutcomes ==
    { [spawned |-> TRUE, code |-> c, stdout |-> o, stderr |-> e, error |-> ""] :
        c \in ExitCodes, o \in Stdouts, e \in Stderrs }
    \cup { [spawned |-> FALSE, code |-> -1, stdout |-> "", stderr |-> "", error |-> m] :
             m \in SpawnErrors }

Rejects(o) == ~o.spawned \/ o.code # 0
\* error.message of the rejection (child_process.exec's ExecException)
ErrorMessage(command, o) ==
    IF ~o.spawned THEN o.error ELSE "Command failed: " \o command \o "\n" \o o.stderr

executeCommand_anyStderr(command, o) ==
    IF Rejects(o) THEN [success |-> FALSE, message |-> ErrorMessage(command, o)]
    ELSE IF o.stderr # "" THEN [success |-> FALSE, message |-> o.stderr]
    ELSE [success |-> TRUE, message |-> o.stdout]

executeCommand_stderrOnReject(command, o) ==
    IF Rejects(o) THEN [success |-> FALSE, message |-> o.stderr]
    ELSE IF o.stderr # "" /\ o.stdout = "" THEN [success |-> FALSE, message |-> o.stderr]
    ELSE [success |-> TRUE, message |-> o.stdout]

executeCommand_ignoreStderr(command, o) ==
    IF Rejects(o) THEN [success |-> FALSE, message |-> ErrorMessage(command, o)]
    ELSE [success |-> TRUE, message |-> o.stdout]

\* async function executeCommand(command: string), given how the process ends
executeCommand(command, o) ==
    IF Rejects(o)
    THEN \* catch (error)
         [success |-> FALSE, message |-> ErrorMessage(command, o)]
    ELSE IF o.stderr # "" /\ o.stdout = ""
    THEN [success |-> FALSE, message |-> o.stderr]
    ELSE [success |-> TRUE, message |-> o.stdout]

(***************************************************************************)
(* Initial values shared by the specifications                             *)
(***************************************************************************)
EnvRpcUrls == {"", "http://env-node:9545"}
EnvPrivateKeys == {"", "0xENVKEY"}

NoConfig == [exists |-> FALSE, readable |-> FALSE, sections |-> <<>>]
NoWorkspace == [dir |-> FALSE, marker |-> FALSE, scripts |-> {}, creatable |-> TRUE]
NoOutcome == [kind |-> "none", value |-> "", accessed |-> FALSE, read |-> FALSE]
ResIdle == [pc |-> "idle", input |-> Undefined, out |-> NoOutcome]
ExIdle ==
    [pc |-> "idle", command |-> "",
     outcome |-> [spawned |-> FALSE, code |-> -1, stdout |-> "", stderr |-> "", error |-> ""],
     result |-> [success |-> FALSE, message |-> ""]]

\* a directory tree: paths are sequences of names below the workspace root
EmptyTree == [dirs |-> {}, files |-> <<>>]

(***************************************************************************)
(* Specification of the resolver alone: every environment default, every   *)
(* config file, every input.                                               *)
(***************************************************************************)
RpcInputs ==
    { Undefined, Some(""), Some("http://node:8545"), Some("https://rpc.example/v1"),
      Some("mainnet"), Some("sepolia"), Some("goerli"), Some("main.et"),
      Some("mainnet("), Some("ws://node:8546") }

InitResolve ==
    /\ envRpcUrl \in EnvRpcUrls
    /\ envPrivateKey = ""
    /\ installed = TRUE
    /\ config \in ConfigFiles
    /\ procs = <<>>
    /\ workspace = NoWorkspace
    /\ calls = <<>>
    /\ res = ResIdle
    /\ ex = ExIdle
    /\ tree = EmptyTree

Resolve ==
    /\ \E r \in RpcInputs :
          res' = [pc |-> "done", input |-> r, out |-> ResolveOutcome(r)]
    /\ UNCHANGED <<envRpcUrl, envPrivateKey, installed, config, procs, workspace, calls, ex, tree>>

NextResolve == Resolve
SpecResolve == InitResolve /\ [][NextResolve]_vars

(***************************************************************************)
(* Specification of the executor alone: every command, every way the       *)
(* subprocess can end.                                                     *)
(***************************************************************************)
ExecCommands ==
    { castPath \o " chain-id --rpc-url \"http://localhost:8545\"",
      forgePath \o " --version",
      "cd " \o FOUNDRY_WORKSPACE \o " && " \o forgePath \o " init --no-git" }

InitExec ==
    /\ envRpcUrl = ""
    /\ envPrivateKey = ""
    /\ installed = TRUE
    /\ config = NoConfig
    /\ procs = <<>>
    /\ workspace = NoWorkspace
    /\ calls = <<>>
    /\ res = ResIdle
    /\ ex = ExIdle
    /\ tree = EmptyTree

Execute ==
    /\ \E c \in ExecCommands, o \in ProcessOutcomes :
          ex' = [pc |-> "done", command |-> c, outcome |-> o, result |-> executeCommand(c, o)]
    /\ UNCHANGED <<envRpcUrl, envPrivateKey, installed, config, procs, workspace, calls, res, tree>>

NextExec == Execute
SpecExec == InitExec /\ [][NextExec]_vars

(***************************************************************************)
(* Tool handlers.  A call occupies a slot of `calls`; its record keeps the *)
(* arguments, every subprocess command line the call launched (in order),  *)
(* the command line handed to executeCommand, and the result returned.     *)
(***************************************************************************)
MaxArrLen == 1

ProbeCommand == forgePath \o " --version"
checkFoundryInstalled_always == TRUE
\* async function checkFoundryInstalled(): whether `forge --version` ran
checkFoundryInstalled == installed

IdleCall ==
    [pc |-> "idle", tool |-> "", args |-> <<>>, launched |-> <<>>, command |-> Undefined,
     text |-> "", isError |-> FALSE, failure |-> ""]

\* the early return of every handler that probes the toolchain
NotInstalledCall(tool, a) ==
    [pc |-> "done", tool |-> tool, args |-> a, launched |-> <<ProbeCommand>>,
     command |-> Undefined, text |-> FOUNDRY_NOT_INSTALLED_ERROR, isError |-> TRUE,
     failure |-> "probe"]

\* a handler that ran `cmd` through executeCommand (result r) after the probe;
\* `failure` names the operation of the call that failed, "" when none did
ExecutedCall(tool, a, pre, cmd, r, text) ==
    [pc |-> "done", tool |-> tool, args |-> a, launched |-> Append(pre, cmd),
     command |-> Some(cmd), text |-> text, isError |-> ~r.success,
     failure |-> IF r.success THEN "" ELSE "command"]

\* a handler that returned an error without running its command
RefusedCall(tool, a, pre, text) ==
    [pc |-> "done", tool |-> tool, args |-> a, launched |-> pre,
     command |-> Undefined, text |-> text, isError |-> TRUE, failure |-> ""]

\* a handler whose catch block turned an exception into an error result
CaughtCall(tool, a, pre, failure, text) ==
    [pc |-> "done", tool |-> tool, args |-> a, launched |-> pre,
     command |-> Undefined, text |-> text, isError |-> TRUE, failure |-> failure]

Flag_always(cond, text) == text
\* if (cond) command += text
Flag(cond, text) == IF cond THEN text ELSE ""
OrDefault(o, d) == IF IsDef(o) THEN Val(o) ELSE d
RpcFlag(resolvedRpcUrl) == Flag(resolvedRpcUrl # "", " --rpc-url \"" \o resolvedRpcUrl \o "\"")

\* how the subprocess of a tool call can end
ToolOutcomes ==
    { [spawned |-> TRUE, code |-> 0, stdout |-> " 42 \n", stderr |-> "", error |-> ""],
      [spawned |-> TRUE, code |-> 1, stdout |-> "", stderr |-> "Error: connection refused\n",
       error |-> ""] }

\* argument values
Address == "0x00000000000000000000000000000000000a11ce"
OptRpcUrl == {Undefined, Some(""), Some("http://node:8545"), Some("mainnet")}
OptRpcUrl2 == {Undefined, Some("http://node:8545")}
OptBlock == {Undefined, Some(""), Some("latest")}
OptBool == {Undefined, Some(TRUE), Some(FALSE)}
OptFlag == {Undefined, Some(TRUE)}
OptCount == {Undefined, Some(0), Some(2)}
OptStr(v) == {Undefined, Some(v)}
ArrayElems == {"", "a1"}
OptArray ==
    {Undefined} \cup { Some(q) : q \in UNION { [1..k -> ArrayElems] : k \in 0..MaxArrLen } }
OptArray1 == {Undefined, Some(<<"a1">>)}

Idle(c) == calls[c].pc = "idle"
Env == <<envRpcUrl, envPrivateKey, installed, config>>
Others == <<Env, procs, workspace, res, ex, tree>>

\* the part of a signature before its first "("
RECURSIVE BeforeParen(_)
BeforeParen(s) ==
    IF Len(s) = 0 \/ Ch(s, 1) = "(" THEN "" ELSE Ch(s, 1) \o BeforeParen(SubSeq(s, 2, Len(s)))

\* s.split("\n")
RECURSIVE SplitLines(_)
SplitLines(s) ==
    LET nl == { i \in 1..Len(s) : Ch(s, i) = "\n" } IN
    IF nl = {} THEN <<s>>
    ELSE LET i == CHOOSE k \in nl : \A k2 \in nl : k <= k2 IN
         <<SubSeq(s, 1, i - 1)>> \o SplitLines(SubSeq(s, i + 1, Len(s)))

RECURSIVE TrimmedNonEmpty(_)
TrimmedNonEmpty(ls) ==
    IF Len(ls) = 0 THEN <<>>
    ELSE LET t == Trim(Head(ls)) IN
         (IF t # "" THEN <<t>> ELSE <<>>) \o TrimmedNonEmpty(Tail(ls))

\* ---- cast_call -------------------------------------------------------
cast_call_args ==
    [contractAddress : {Some(Address)}, functionSignature : {Some("balanceOf(address)")},
     args : OptArray, rpcUrl : OptRpcUrl, blockNumber : OptBlock, from : OptStr(Address)]

cast_call_command(a) ==
    LET args == OrDefault(a.args, <<>>) IN
    castPath \o " call " \o Val(a.contractAddress) \o " \"" \o Val(a.functionSignature) \o "\""
    \o Flag(Len(args) > 0, " " \o Join(args, " "))
    \o RpcFlag(resolveRpcUrl(a.rpcUrl))
    \o Flag(TruthyStr(a.blockNumber), " --block " \o OrDefault(a.blockNumber, ""))
    \o Flag(TruthyStr(a.from), " --from " \o OrDefault(a.from, ""))

cast_call_text(a, r) ==
    LET formattedOutput ==
            IF r.success /\ Includes(r.message, "\n") /\ ~Includes(r.message, "Error")
            THEN Join(TrimmedNonEmpty(SplitLines(r.message)), "\n")
            ELSE r.message
    IN IF r.success
       THEN "Call to " \o Val(a.contractAddress) \o "." \o BeforeParen(Val(a.functionSignature))
            \o " result:\n" \o formattedOutput
       ELSE "Call failed: " \o r.message

cast_call(c) ==
    /\ Idle(c)
    /\ \E a \in cast_call_args, o \in ToolOutcomes :
          calls' = [calls EXCEPT ![c] =
              IF ~checkFoundryInstalled THEN NotInstalledCall("cast_call", a)
              ELSE LET cmd == cast_call_command(a)
                       r == executeCommand(cmd, o)
                   IN ExecutedCall("cast_call", a, <<ProbeCommand>>, cmd, r, cast_call_text(a, r))]
    /\ UNCHANGED Others

\* ---- cast_send -------------------------------------------------------
cast_send_args ==
    [contractAddress : {Some(Address)}, functionSignature : {Some("transfer(address,uint256)")},
     args : OptArray1, from : {Undefined, Some(""), Some(Address), Some("0xFROMKEY")},
     privateKey : {Undefined, Some(""), Some("0xARGKEY")}, value : OptStr("1000"),
     rpcUrl : OptRpcUrl2, gasLimit : OptStr("21000"), gasPrice : OptStr("7"),
     confirmations : {Undefined, Some(2)}]

NO_SENDER_ERROR ==
    "Error: No sender address or private key provided. Please specify one using 'from' or 'privateKey' parameter, or set the PRIVATE_KEY environment variable."

cast_send_signer_unconditional(a) ==
    Some(" --private-key " \o OrDefault(a.privateKey, envPrivateKey))

cast_send_signer_envFirst(a) ==
    IF envPrivateKey # "" THEN Some(" --private-key " \o envPrivateKey)
    ELSE IF TruthyStr(a.privateKey) THEN Some(" --private-key " \o Val(a.privateKey))
    ELSE IF TruthyStr(a.from)
    THEN IF StartsWith(Val(a.from), "0x") /\ Len(Val(a.from)) = 42
         THEN Some(" --from " \o Val(a.from))
         ELSE Some(" --private-key " \o Val(a.from))
    ELSE Undefined

\* the signing flag, or <<>> when no credential is available
cast_send_signer(a) ==
    IF TruthyStr(a.privateKey) THEN Some(" --private-key " \o Val(a.privateKey))
    ELSE IF envPrivateKey # "" THEN Some(" --private-key " \o envPrivateKey)
    ELSE IF TruthyStr(a.from)
    THEN IF StartsWith(Val(a.from), "0x") /\ Len(Val(a.from)) = 42
         THEN Some(" --from " \o Val(a.from))
         ELSE Some(" --private-key " \o Val(a.from))
    ELSE Undefined

cast_send_command(a) ==
    LET args == OrDefault(a.args, <<>>) IN
    castPath \o " send " \o Val(a.contractAddress) \o " \"" \o Val(a.functionSignature) \o "\""
    \o Flag(Len(args) > 0, " " \o Join(args, " "))
    \o OrDefault(cast_send_signer(a), "")
    \o Flag(TruthyStr(a.value), " --value " \o OrDefault(a.value, ""))
    \o RpcFlag(resolveRpcUrl(a.rpcUrl))
    \o Flag(TruthyStr(a.gasLimit), " --gas-limit " \o OrDefault(a.gasLimit, ""))
    \o Flag(TruthyStr(a.gasPrice), " --gas-price " \o OrDefault(a.gasPrice, ""))
    \o Flag(TruthyNum(a.confirmations), " --confirmations " \o ToString(OrDefault(a.confirmations, 0)))

cast_send_text(a, r) ==
    IF r.success THEN "Transaction sent successfully:\n" \o r.message
    ELSE "Transaction failed: " \o r.message

cast_send(c) ==
    /\ Idle(c)
    /\ \E a \in cast_send_args, o \in ToolOutcomes :
          calls' = [calls EXCEPT ![c] =
              IF ~checkFoundryInstalled THEN NotInstalledCall("cast_send", a)
              ELSE IF ~IsDef(cast_send_signer(a))
              THEN RefusedCall("cast_send", a, <<ProbeCommand>>, NO_SENDER_ERROR)
              ELSE LET cmd == cast_send_command(a)
                       r == executeCommand(cmd, o)
                   IN ExecutedCall("cast_send", a, <<ProbeCommand>>, cmd, r, cast_send_text(a, r))]
    /\ UNCHANGED Others

\* ---- cast_balance ----------------------------------------------------
cast_balance_args ==
    [address : {Some(Address)}, rpcUrl : OptRpcUrl, blockNumber : OptBlock, formatEther : OptBool]

cast_balance_command(a) ==
    castPath \o " balance " \o Val(a.address)
    \o RpcFlag(resolveRpcUrl(a.rpcUrl))
    \o Flag(TruthyStr(a.blockNumber), " --block " \o OrDefault(a.blockNumber, ""))
    \o Flag(OrDefault(a.formatEther, FALSE), " --ether")

cast_balance_text_untrimmed(a, r) ==
    IF r.success THEN "Balance of " \o Val(a.address) \o ": " \o r.message \o " wei"
    ELSE "Failed to get balance: " \o r.message

cast_balance_text(a, r) ==
    LET unit == IF OrDefault(a.formatEther, FALSE) THEN "ETH" ELSE "wei" IN
    IF r.success THEN "Balance of " \o Val(a.address) \o ": " \o Trim(r.message) \o " " \o unit
    ELSE "Failed to get balance: " \o r.message

cast_balance(c) ==
    /\ Idle(c)
    /\ \E a \in cast_balance_args, o \in ToolOutcomes :
          calls' = [calls EXCEPT ![c] =
              IF ~checkFoundryInstalled THEN NotInstalledCall("cast_balance", a)
              ELSE LET cmd == cast_balance_command(a)
                       r == executeCommand(cmd, o)
                   IN ExecutedCall("cast_balance", a, <<ProbeCommand>>, cmd, r,
                                   cast_balance_text(a, r))]
    /\ UNCHANGED Others

\* ---- cast_receipt ----------------------------------------------------
TxHash == "0xfeed"
cast_receipt_args ==
    [txHash : {Some(TxHash)}, rpcUrl : OptRpcUrl2, confirmations : OptCount,
     field : {Undefined, Some(""), Some("status")}]

cast_receipt_command(a) ==
    castPath \o " receipt " \o Val(a.txHash)
    \o RpcFlag(resolveRpcUrl(a.rpcUrl))
    \o Flag(TruthyNum(a.confirmations), " --confirmations " \o ToString(OrDefault(a.confirmations, 0)))
    \o Flag(TruthyStr(a.field), " " \o OrDefault(a.field, ""))

cast_receipt_text(a, r) ==
    IF r.success
    THEN "Transaction receipt for " \o Val(a.txHash)
         \o Flag(TruthyStr(a.field), " (" \o OrDefault(a.field, "") \o ")") \o ":\n" \o r.message
    ELSE "Failed to get receipt: " \o r.message

cast_receipt(c) ==
    /\ Idle(c)
    /\ \E a \in cast_receipt_args, o \in ToolOutcomes :
          calls' = [calls EXCEPT ![c] =
              IF ~checkFoundryInstalled THEN NotInstalledCall("cast_receipt", a)
              ELSE LET cmd == cast_receipt_command(a)
                       r == executeCommand(cmd, o)
                   IN ExecutedCall("cast_receipt", a, <<ProbeCommand>>, cmd, r,
                                   cast_receipt_text(a, r))]
    /\ UNCHANGED Others

\* ---- cast_storage ----------------------------------------------------
cast_storage_args ==
    [address : {Some(Address)}, slot : {Some("0")}, rpcUrl : OptRpcUrl2, blockNumber : OptBlock]

cast_storage_command(a) ==
    castPath \o " storage " \o Val(a.address) \o " " \o Val(a.slot)
    \o RpcFlag(resolveRpcUrl(a.rpcUrl))
    \o Flag(TruthyStr(a.blockNumber), " --block " \o OrDefault(a.blockNumber, ""))

cast_storage_text(a, r) ==
    IF r.success
    THEN "Storage at " \o Val(a.address) \o " slot " \o Val(a.slot) \o ": " \o Trim(r.message)
    ELSE "Failed to read storage: " \o r.message

cast_storage(c) ==
    /\ Idle(c)
    /\ \E a \in cast_storage_args, o \in ToolOutcomes :
          calls' = [calls EXCEPT ![c] =
              IF ~checkFoundryInstalled THEN NotInstalledCall("cast_storage", a)
              ELSE LET cmd == cast_storage_command(a)
                       r == executeCommand(cmd, o)
                   IN ExecutedCall("cast_storage", a, <<ProbeCommand>>, cmd, r,
                                   cast_storage_text(a, r))]
    /\ UNCHANGED Others

\* ---- cast_run --------------------------------------------------------
cast_run_args ==
    [txHash : {Some(TxHash)}, rpcUrl : {Some(""), Some("http://node:8545")},
     quick : OptFlag, debug : OptFlag, labels : OptArray]

RECURSIVE LabelFlags(_)
\* for (const label of labels) command += ` --label ${label}`
LabelFlags(labels) ==
    IF Len(labels) = 0 THEN "" ELSE " --label " \o Head(labels) \o LabelFlags(Tail(labels))

cast_run_command(a) ==
    castPath \o " run " \o Val(a.txHash)
    \o RpcFlag(resolveRpcUrl(a.rpcUrl))
    \o Flag(OrDefault(a.quick, FALSE), " --quick")
    \o Flag(OrDefault(a.debug, FALSE), " --debug")
    \o LabelFlags(OrDefault(a.labels, <<>>))

cast_run_text(a, r) ==
    IF r.success THEN "Transaction trace for " \o Val(a.txHash) \o ":\n" \o r.message
    ELSE "Failed to run transaction: " \o r.message

cast_run(c) ==
    /\ Idle(c)
    /\ \E a \in cast_run_args, o \in ToolOutcomes :
          calls' = [calls EXCEPT ![c] =
              IF ~checkFoundryInstalled THEN NotInstalledCall("cast_run", a)
              ELSE LET cmd == cast_run_command(a)
                       r == executeCommand(cmd, o)
                   IN ExecutedCall("cast_run", a, <<ProbeCommand>>, cmd, r, cast_run_text(a, r))]
    /\ UNCHANGED Others

\* ---- cast_logs -------------------------------------------------------
EventSig == "Transfer(address,address,uint256)"
cast_logs_args ==
    [signature : {Some(EventSig)}, topics : OptArray, address : OptStr(Address),
     fromBlock : OptStr("1"), toBlock : OptStr("latest"), rpcUrl : OptRpcUrl2]

cast_logs_command(a) ==
    LET topics == OrDefault(a.topics, <<>>) IN
    castPath \o " logs \"" \o Val(a.signature) \o "\""
    \o Flag(Len(topics) > 0, " " \o Join(topics, " "))
    \o Flag(TruthyStr(a.address), " --address " \o OrDefault(a.address, ""))
    \o Flag(TruthyStr(a.fromBlock), " --from-block " \o OrDefault(a.fromBlock, ""))
    \o Flag(TruthyStr(a.toBlock), " --to-block " \o OrDefault(a.toBlock, ""))
    \o RpcFlag(resolveRpcUrl(a.rpcUrl))

cast_logs_text(a, r) ==
    IF r.success THEN "Logs for signature \"" \o Val(a.signature) \o "\":\n" \o r.message
    ELSE "Failed to get logs: " \o r.message

cast_logs(c) ==
    /\ Idle(c)
    /\ \E a \in cast_logs_args, o \in ToolOutcomes :
          calls' = [calls EXCEPT ![c] =
              IF ~checkFoundryInstalled THEN NotInstalledCall("cast_logs", a)
              ELSE LET cmd == cast_logs_command(a)
                       r == executeCommand(cmd, o)
                   IN ExecutedCall("cast_logs", a, <<ProbeCommand>>, cmd, r, cast_logs_text(a, r))]
    /\ UNCHANGED Others

\* ---- cast_sig --------------------------------------------------------
cast_sig_args == [signature : {Some(EventSig)}, isEvent : OptBool]

cast_sig_command(a) ==
    IF OrDefault(a.isEvent, FALSE)
    THEN castPath \o " sig-event \"" \o Val(a.signature) \o "\""
    ELSE castPath \o " sig \"" \o Val(a.signature) \o "\""

cast_sig_text(a, r) ==
    IF r.success
    THEN "Selector for " \o (IF OrDefault(a.isEvent, FALSE) THEN "event" ELSE "function")
         \o " \"" \o Val(a.signature) \o "\": " \o Trim(r.message)
    ELSE "Selector generation failed: " \o r.message

cast_sig(c) ==
    /\ Idle(c)
    /\ \E a \in cast_sig_args, o \in ToolOutcomes :
          calls' = [calls EXCEPT ![c] =
              IF ~checkFoundryInstalled THEN NotInstalledCall("cast_sig", a)
              ELSE LET cmd == cast_sig_command(a)
                       r == executeCommand(cmd, o)
                   IN ExecutedCall("cast_sig", a, <<ProbeCommand>>, cmd, r, cast_sig_text(a, r))]
    /\ UNCHANGED Others

\* ---- cast_4byte ------------------------------------------------------
cast_4byte_args == [selector : {Some("0xa9059cbb")}, isEvent : OptBool]

cast_4byte_command(a) ==
    IF OrDefault(a.isEvent, FALSE)
    THEN castPath \o " 4byte-event " \o Val(a.selector)
    ELSE castPath \o " 4byte " \o Val(a.selector)

cast_4byte_text(a, r) ==
    IF r.success
    THEN "Possible " \o (IF OrDefault(a.isEvent, FALSE) THEN "event" ELSE "function")
         \o " signatures for " \o Val(a.selector) \o ":\n" \o r.message
    ELSE "Lookup failed: " \o r.message

cast_4byte(c) ==
    /\ Idle(c)
    /\ \E a \in cast_4byte_args, o \in ToolOutcomes :
          calls' = [calls EXCEPT ![c] =
              IF ~checkFoundryInstalled THEN NotInstalledCall("cast_4byte", a)
              ELSE LET cmd == cast_4byte_command(a)
                       r == executeCommand(cmd, o)
                   IN ExecutedCall("cast_4byte", a, <<ProbeCommand>>, cmd, r, cast_4byte_text(a, r))]
    /\ UNCHANGED Others

\* ---- cast_chain ------------------------------------------------------
cast_chain_args == [rpcUrl : OptRpcUrl, returnId : OptBool]

cast_chain_command(a) ==
    IF OrDefault(a.returnId, FALSE)
    THEN castPath \o " chain-id --rpc-url \"" \o resolveRpcUrl(a.rpcUrl) \o "\""
    ELSE castPath \o " chain --rpc-url \"" \o resolveRpcUrl(a.rpcUrl) \o "\""

cast_chain_text(a, r) ==
    IF r.success
    THEN "Chain " \o (IF OrDefault(a.returnId, FALSE) THEN "ID" ELSE "name") \o ": " \o Trim(r.message)
    ELSE "Failed to get chain information: " \o r.message

cast_chain(c) ==
    /\ Idle(c)
    /\ \E a \in cast_chain_args, o \in ToolOutcomes :
          calls' = [calls EXCEPT ![c] =
              IF ~checkFoundryInstalled THEN NotInstalledCall("cast_chain", a)
              ELSE LET cmd == cast_chain_command(a)
                       r == executeCommand(cmd, o)
                   IN ExecutedCall("cast_chain", a, <<ProbeCommand>>, cmd, r, cast_chain_text(a, r))]
    /\ UNCHANGED Others

\* ---- convert_eth_units -----------------------------------------------
Units == {"wei", "gwei", "ether"}
convert_eth_units_args == [value : {Some("1")}, fromUnit : { Some(u) : u \in Units },
                           toUnit : { Some(u) : u \in Units }]

convert_eth_units_command(a) ==
    castPath \o " to-unit " \o Val(a.value) \o Val(a.fromUnit) \o " " \o Val(a.toUnit)

convert_eth_units_text(a, r) ==
    IF r.success
    THEN Val(a.value) \o " " \o Val(a.fromUnit) \o " = " \o Trim(r.message) \o " " \o Val(a.toUnit)
    ELSE "Conversion failed: " \o r.message

convert_eth_units(c) ==
    /\ Idle(c)
    /\ \E a \in convert_eth_units_args, o \in ToolOutcomes :
          calls' = [calls EXCEPT ![c] =
              IF ~checkFoundryInstalled THEN NotInstalledCall("convert_eth_units", a)
              ELSE LET cmd == convert_eth_units_command(a)
                       r == executeCommand(cmd, o)
                   IN ExecutedCall("convert_eth_units", a, <<ProbeCommand>>, cmd, r,
                                   convert_eth_units_text(a, r))]
    /\ UNCHANGED Others

\* ---- compute_address -------------------------------------------------
compute_address_args == [deployerAddress : {Some(Address)}, nonce : {Undefined, Some(""), Some("5")},
                         rpcUrl : OptRpcUrl]

compute_address_command(a) ==
    castPath \o " compute-address " \o Val(a.deployerAddress)
    \o Flag(TruthyStr(a.nonce), " --nonce " \o OrDefault(a.nonce, ""))
    \o RpcFlag(resolveRpcUrl(a.rpcUrl))

compute_address_text(a, r) ==
    IF r.success THEN "Computed contract address: " \o Trim(r.message)
    ELSE "Error computing contract address: " \o r.message

compute_address(c) ==
    /\ Idle(c)
    /\ \E a \in compute_address_args, o \in ToolOutcomes :
          calls' = [calls EXCEPT ![c] =
              IF ~checkFoundryInstalled THEN NotInstalledCall("compute_address", a)
              ELSE LET cmd == compute_address_command(a)
                       r == executeCommand(cmd, o)
                   IN ExecutedCall("compute_address", a, <<ProbeCommand>>, cmd, r,
                                   compute_address_text(a, r))]
    /\ UNCHANGED Others

(***************************************************************************)
(* Background node monitor                                                 *)
(***************************************************************************)
PsCommand == "ps aux | grep anvil | grep -v grep"
platform == "linux"
KillCommand == IF platform = "win32" THEN "taskkill /F /IM anvil.exe" ELSE "pkill -f anvil"

IsDigit(c) == c \in {"0", "1", "2", "3", "4", "5", "6", "7", "8", "9"}
\* first position >= k that holds no digit (Len(s) + 1 at the end)
SkipDigits(s, k) ==
    CHOOSE m \in k..(Len(s) + 1) :
        /\ \A q \in k..(m - 1) : IsDigit(Ch(s, q))
        /\ (m = Len(s) + 1 \/ ~IsDigit(Ch(s, m)))

\* the lines `ps aux | grep anvil | grep -v grep` prints for a process table
RECURSIVE PsStdout(_)
PsStdout(table) ==
    IF Len(table) = 0 THEN ""
    ELSE Flag(Includes(Head(table), "anvil") /\ ~Includes(Head(table), "grep"), Head(table) \o "\n")
         \o PsStdout(Tail(table))

\* F applied to the value of v, v computed once
Bind(v, F(_)) == CHOOSE r \in { F(x) : x \in {v} } : TRUE

\* the positions of s where /--port\s+\d/ matches
PortHits(s) ==
    { i \in 1..Len(s) :
        /\ MatchesAt(s, "--port", i)
        /\ Bind(SkipWs(s, i + 6), LAMBDA w : w > i + 6 /\ w <= Len(s) /\ IsDigit(Ch(s, w))) }

\* stdout.match(/--port\s+(\d+)/): <<>> or <<group 1>> of the leftmost match
PortMatch(s) ==
    Bind(PortHits(s),
         LAMBDA hits :
            IF hits = {} THEN <<>>
            ELSE Bind(SkipWs(s, Least(hits) + 6),
                      LAMBDA w : <<SubSeq(s, w, SkipDigits(s, w) - 1)>>))

getAnvilInfo_blind(table) == [running |-> FALSE, port |-> Undefined, url |-> Undefined]
getAnvilInfo_always(table) ==
    [running |-> TRUE, port |-> Some("8545"), url |-> Some("http://localhost:8545")]

\* getAnvilInfo once the listing is not empty
RunningInfo(portMatch) ==
    LET port == IF portMatch # <<>> THEN portMatch[1] ELSE "8545"
    IN [running |-> TRUE, port |-> Some(port), url |-> Some("http://localhost:" \o port)]

\* what getAnvilInfo makes of the listing
AnvilInfoOf(stdout) ==
    IF stdout = "" THEN [running |-> FALSE, port |-> Undefined, url |-> Undefined]
    ELSE Bind(PortMatch(stdout), RunningInfo)

\* async function getAnvilInfo(), on a process table.  An empty listing
\* makes grep exit 1, execAsync reject and the catch return the same.
getAnvilInfo(table) == Bind(PsStdout(table), AnvilInfoOf)

\* ---- anvil_start -----------------------------------------------------
anvil_start_args ==
    [port : {Undefined, Some(9545)}, blockTime : {Undefined, Some(0)},
     forkUrl : OptStr("http://fork:8545"), forkBlockNumber : {Undefined, Some(0)},
     accounts : {Undefined, Some(5)}, mnemonic : OptStr("test junk"), silent : OptFlag]

\* port = 8545 in the handler's parameter list
anvil_start_port(a) == ToString(OrDefault(a.port, 8545))

anvil_start_command(a) ==
    anvilPath \o " --port " \o anvil_start_port(a)
    \o Flag(IsDef(a.blockTime), " --block-time " \o ToString(OrDefault(a.blockTime, 0)))
    \o Flag(TruthyStr(a.forkUrl),
            " --fork-url \"" \o OrDefault(a.forkUrl, "") \o "\""
            \o Flag(IsDef(a.forkBlockNumber),
                    " --fork-block-number " \o ToString(OrDefault(a.forkBlockNumber, 0))))
    \o Flag(IsDef(a.accounts), " --accounts " \o ToString(OrDefault(a.accounts, 0)))
    \o Flag(TruthyStr(a.mnemonic), " --mnemonic \"" \o OrDefault(a.mnemonic, "") \o "\"")

\* error.message when child_process.exec throws instead of returning a child
LaunchError == "spawn ENOMEM"

\* up to the launch: probe, running-check, exec(command) in the background
anvil_start(c) ==
    /\ Idle(c)
    /\ \E a \in anvil_start_args :
          IF ~checkFoundryInstalled
          THEN /\ calls' = [calls EXCEPT ![c] = NotInstalledCall("anvil_start", a)]
               /\ UNCHANGED procs
          ELSE LET anvilInfo == getAnvilInfo(procs) IN
               IF anvilInfo.running
               THEN /\ calls' = [calls EXCEPT ![c] =
                         RefusedCall("anvil_start", a, <<ProbeCommand, PsCommand>>,
                             "Anvil is already running on port " \o Val(anvilInfo.port) \o ".")]
                    /\ UNCHANGED procs
               ELSE LET command == anvil_start_command(a) IN
                    \E threw \in BOOLEAN :
                       IF threw
                       THEN \* exec itself throws: catch (error)
                            /\ calls' = [calls EXCEPT ![c] =
                                 [pc |-> "done", tool |-> "anvil_start", args |-> a,
                                  launched |-> <<ProbeCommand, PsCommand, command>>,
                                  command |-> Some(command),
                                  text |-> "Error starting Anvil: " \o LaunchError,
                                  isError |-> TRUE, failure |-> "launch"]]
                            /\ UNCHANGED procs
                       ELSE /\ calls' = [calls EXCEPT ![c] =
                                 [pc |-> "started", tool |-> "anvil_start", args |-> a,
                                  launched |-> <<ProbeCommand, PsCommand, command>>,
                                  command |-> Some(command), text |-> "", isError |-> FALSE,
                                  failure |-> ""]]
                            /\ procs' = Append(procs, command)
    /\ UNCHANGED <<Env, workspace, res, ex, tree>>

anvil_start_confirm_optimistic(c) ==
    /\ calls[c].pc = "started"
    /\ \E table \in {procs, SelectSeq(procs, LAMBDA p : p # Val(calls[c].command))} :
          /\ procs' = table
          /\ calls' = [calls EXCEPT ![c] =
                [@ EXCEPT !.pc = "done", !.launched = Append(@, PsCommand),
                          !.text = "Anvil started successfully on port "
                                   \o anvil_start_port(calls[c].args) \o ". "]]
    /\ UNCHANGED <<Env, workspace, res, ex, tree>>

\* a handler that waits for the process it launched to exit
anvil_start_confirm_waits(c) ==
    /\ calls[c].pc = "started"
    /\ \A i \in DOMAIN procs : procs[i] # Val(calls[c].command)
    /\ calls' = [calls EXCEPT ![c] =
          [@ EXCEPT !.pc = "done", !.launched = Append(@, PsCommand),
                    !.text = "Failed to start Anvil. Check system logs for details.",
                    !.isError = TRUE]]
    /\ UNCHANGED Others

\* after the grace period (during which the launched node may have died):
\* the status is queried again and decides the result
anvil_start_confirm(c) ==
    /\ calls[c].pc = "started"
    /\ \E table \in {procs, SelectSeq(procs, LAMBDA p : p # Val(calls[c].command))},
          pid \in {4242} :
          /\ procs' = table
          /\ calls' = [calls EXCEPT ![c] =
                LET newAnvilInfo == getAnvilInfo(table)
                    port == anvil_start_port(calls[c].args)
                IN [@ EXCEPT !.pc = "done",
                             !.launched = Append(@, PsCommand),
                             !.text = IF newAnvilInfo.running
                                      THEN "Anvil started successfully on port " \o port \o ". "
                                           \o "RPC URL: http://localhost:" \o port \o "\n"
                                           \o "Process ID: " \o ToString(pid)
                                      ELSE "Failed to start Anvil. Check system logs for details.",
                             !.isError = ~newAnvilInfo.running]]
    /\ UNCHANGED <<Env, workspace, res, ex, tree>>

\* ---- anvil_stop ------------------------------------------------------
\* up to the kill command: running-check, then pkill (which may reject)
anvil_stop(c) ==
    /\ Idle(c)
    /\ LET anvilInfo == getAnvilInfo(procs) IN
       IF ~anvilInfo.running
       THEN calls' = [calls EXCEPT ![c] =
                RefusedCall("anvil_stop", <<>>, <<PsCommand>>,
                            "No Anvil instance is currently running.")]
       ELSE \E o \in ToolOutcomes :
              calls' = [calls EXCEPT ![c] =
                IF Rejects(o)
                THEN [pc |-> "done", tool |-> "anvil_stop", args |-> <<>>,
                      launched |-> <<PsCommand, KillCommand>>, command |-> Some(KillCommand),
                      text |-> "Error stopping Anvil: " \o ErrorMessage(KillCommand, o),
                      isError |-> TRUE, failure |-> "kill"]
                ELSE [pc |-> "stopping", tool |-> "anvil_stop", args |-> <<>>,
                      launched |-> <<PsCommand, KillCommand>>, command |-> Some(KillCommand),
                      text |-> "", isError |-> FALSE, failure |-> ""]]
    /\ UNCHANGED <<Env, procs, workspace, res, ex, tree>>

anvil_stop_confirm_optimistic(c) ==
    /\ calls[c].pc = "stopping"
    /\ \E table \in {procs, SelectSeq(procs, LAMBDA p : ~Includes(p, "anvil"))} :
          /\ procs' = table
          /\ calls' = [calls EXCEPT ![c] =
                [@ EXCEPT !.pc = "done", !.launched = Append(@, PsCommand),
                          !.text = "Anvil has been stopped successfully."]]
    /\ UNCHANGED <<Env, workspace, res, ex, tree>>

\* after the grace period (during which the signalled processes may have
\* exited): the status is queried again and decides the result
anvil_stop_confirm(c) ==
    /\ calls[c].pc = "stopping"
    /\ \E table \in {procs, SelectSeq(procs, LAMBDA p : ~Includes(p, "anvil"))} :
          /\ procs' = table
          /\ calls' = [calls EXCEPT ![c] =
                LET newAnvilInfo == getAnvilInfo(table) IN
                [@ EXCEPT !.pc = "done",
                          !.launched = Append(@, PsCommand),
                          !.text = IF ~newAnvilInfo.running
                                   THEN "Anvil has been stopped successfully."
                                   ELSE "Failed to stop Anvil. It may still be running.",
                          !.isError = newAnvilInfo.running]]
    /\ UNCHANGED <<Env, workspace, res, ex, tree>>

\* ---- anvil_status ----------------------------------------------------
\* a status that trusts what an earlier anvil_start reported
anvil_status_remembered(c) ==
    /\ Idle(c)
    /\ calls' = [calls EXCEPT ![c] =
          LET started == { d \in DOMAIN calls :
                             /\ calls[d].tool = "anvil_start" /\ calls[d].pc = "done"
                             /\ ~calls[d].isError }
              anvilInfo == IF started # {}
                           THEN [running |-> TRUE, port |-> Some("8545"),
                                 url |-> Some("http://localhost:8545")]
                           ELSE getAnvilInfo(procs)
          IN [pc |-> "done", tool |-> "anvil_status", args |-> <<>>, launched |-> <<PsCommand>>,
              command |-> Undefined,
              text |-> IF anvilInfo.running
                       THEN "Anvil is running on port " \o Val(anvilInfo.port) \o ". RPC URL: "
                            \o Val(anvilInfo.url)
                       ELSE "Anvil is not currently running.",
              isError |-> FALSE, failure |-> ""]]
    /\ UNCHANGED Others

anvil_status(c) ==
    /\ Idle(c)
    /\ calls' = [calls EXCEPT ![c] =
          LET anvilInfo == getAnvilInfo(procs) IN
          [pc |-> "done", tool |-> "anvil_status", args |-> <<>>, launched |-> <<PsCommand>>,
           command |-> Undefined,
           text |-> IF anvilInfo.running
                    THEN "Anvil is running on port " \o Val(anvilInfo.port) \o ". RPC URL: "
                         \o Val(anvilInfo.url)
                    ELSE "Anvil is not currently running.",
           isError |-> FALSE, failure |-> ""]]
    /\ UNCHANGED Others

(***************************************************************************)
(* Workspace manager and the Forge tools                                   *)
(***************************************************************************)
InitCommand == "cd " \o FOUNDRY_WORKSPACE \o " && " \o forgePath \o " init --no-git"
RepoScripts ==
    {"script/DeployTestERC20.s.sol", "script/DeployERC721.s.sol", "script/DeployERC1155.s.sol"}

MkdirError == "EACCES: permission denied, mkdir '" \o FOUNDRY_WORKSPACE \o "'"
\* the workspace after `forge init --no-git` ended as oi: an exit status of
\* zero leaves the project files, foundry.toml among them
AfterInit(ws, oi) ==
    IF Rejects(oi) THEN ws
    ELSE [ws EXCEPT !.marker = TRUE, !.scripts = @ \cup {"script/Counter.s.sol"}]

ensureWorkspaceInitialized_always(ws, oi) ==
    IF ~ws.dir /\ ~ws.creatable
    THEN [threw |-> TRUE, message |-> MkdirError, ws |-> ws, launched |-> <<>>, failure |-> "mkdir"]
    ELSE [threw |-> FALSE, message |-> "", ws |-> AfterInit([ws EXCEPT !.dir = TRUE], oi),
          launched |-> <<InitCommand>>,
          failure |-> IF executeCommand(InitCommand, oi).success THEN "" ELSE "init"]

\* async function ensureWorkspaceInitialized(): whether it throws, the
\* workspace it leaves, the commands it launched.  `oi` is how the
\* initialization command ends if it is run; its result is not looked at
\* (`failure` records it: "init" when executeCommand reported a failure).
ensureWorkspaceInitialized(ws, oi) ==
    IF ~ws.dir /\ ~ws.creatable
    THEN [threw |-> TRUE, message |-> MkdirError, ws |-> ws, launched |-> <<>>, failure |-> "mkdir"]
    ELSE IF ws.marker
    THEN [threw |-> FALSE, message |-> "", ws |-> [ws EXCEPT !.dir = TRUE], launched |-> <<>>,
          failure |-> ""]
    ELSE [threw |-> FALSE, message |-> "", ws |-> AfterInit([ws EXCEPT !.dir = TRUE], oi),
          launched |-> <<InitCommand>>,
          failure |-> IF executeCommand(InitCommand, oi).success THEN "" ELSE "init"]

\* the signing flags of forge_script and the deploy tools
forge_signer(a, broadcast) ==
    IF TruthyStr(a.privateKey) /\ broadcast THEN " --private-key " \o Val(a.privateKey)
    ELSE IF envPrivateKey # "" /\ broadcast THEN " --private-key " \o envPrivateKey
    ELSE IF TruthyStr(a.sender) THEN " --sender " \o Val(a.sender)
    ELSE ""

ScriptCall_noCatch(tool, a, scriptPath, command, missingPrefix, okPrefix, failPrefix, catchPrefix, oi, o) ==
    LET w == ensureWorkspaceInitialized(workspace, oi)
        pre == <<ProbeCommand>> \o w.launched
        scriptFullPath == FOUNDRY_WORKSPACE \o "/" \o scriptPath
    IN IF w.threw
       THEN [CaughtCall(tool, a, pre, "mkdir", w.message) EXCEPT !.pc = "threw", !.isError = FALSE]
       ELSE IF scriptPath \notin w.ws.scripts
       THEN RefusedCall(tool, a, pre, missingPrefix \o scriptFullPath)
       ELSE LET r == executeCommand(command, o) IN
            ExecutedCall(tool, a, pre, command, r,
                         IF r.success THEN okPrefix \o r.message ELSE failPrefix \o r.message)

ScriptCall_unchecked(tool, a, scriptPath, command, missingPrefix, okPrefix, failPrefix, catchPrefix, oi, o) ==
    LET w == ensureWorkspaceInitialized(workspace, oi)
        pre == <<ProbeCommand>> \o w.launched
    IN IF w.threw THEN CaughtCall(tool, a, pre, "mkdir", catchPrefix \o w.message)
       ELSE LET r == executeCommand(command, o) IN
            ExecutedCall(tool, a, pre, command, r,
                         IF r.success THEN okPrefix \o r.message ELSE failPrefix \o r.message)

\* the common body of forge_script and the deploy tools, after the probe:
\* workspace, script check, command, execution
ScriptCall(tool, a, scriptPath, command, missingPrefix, okPrefix, failPrefix, catchPrefix, oi, o) ==
    LET w == ensureWorkspaceInitialized(workspace, oi)
        pre == <<ProbeCommand>> \o w.launched
        scriptFullPath == FOUNDRY_WORKSPACE \o "/" \o scriptPath
    IN IF w.threw THEN CaughtCall(tool, a, pre, "mkdir", catchPrefix \o w.message)
       ELSE IF scriptPath \notin w.ws.scripts
       THEN RefusedCall(tool, a, pre, missingPrefix \o scriptFullPath)
       ELSE LET r == executeCommand(command, o) IN
            ExecutedCall(tool, a, pre, command, r,
                         IF r.success THEN okPrefix \o r.message ELSE failPrefix \o r.message)

\* ---- forge_script ----------------------------------------------------
forge_script_args ==
    [scriptPath : {Some("script/DeployTestERC20.s.sol"), Some("script/Missing.s.sol")},
     sig : {Undefined, Some(""), Some("deploy()")}, rpcUrl : OptRpcUrl2,
     sender : OptStr(Address), privateKey : OptStr("0xARGKEY"), broadcast : OptBool,
     verify : OptFlag]

\* sig = "run()" in the handler's parameter list
forge_script_sig(a) == OrDefault(a.sig, "run()")

forge_script_command(a) ==
    "cd " \o FOUNDRY_WORKSPACE \o " && " \o forgePath \o " script " \o Val(a.scriptPath)
    \o " --sig \"" \o forge_script_sig(a) \o "\""
    \o RpcFlag(resolveRpcUrl(a.rpcUrl))
    \o forge_signer(a, OrDefault(a.broadcast, FALSE))
    \o Flag(OrDefault(a.broadcast, FALSE), " --broadcast")
    \o Flag(OrDefault(a.verify, FALSE), " --verify")
    \o " -vvv"

forge_script(c) ==
    /\ Idle(c)
    /\ \E a \in forge_script_args, oi \in ToolOutcomes, o \in ToolOutcomes :
          IF ~checkFoundryInstalled
          THEN /\ calls' = [calls EXCEPT ![c] = NotInstalledCall("forge_script", a)]
               /\ UNCHANGED workspace
          ELSE /\ calls' = [calls EXCEPT ![c] =
                    ScriptCall("forge_script", a, Val(a.scriptPath), forge_script_command(a),
                               "Script does not exist at ", "Script executed successfully:\n",
                               "Script execution failed: ", "Error executing script: ", oi, o)]
               /\ workspace' = ensureWorkspaceInitialized(workspace, oi).ws
    /\ UNCHANGED <<Env, procs, res, ex, tree>>

\* ---- deploy_erc20 / deploy_erc721 / deploy_erc1155 -------------------
EnvVar(name, o) == Flag(TruthyStr(o), name \o "=\"" \o OrDefault(o, "") \o "\" ")

DeployCommand(a, envVars, scriptPath) ==
    "cd " \o FOUNDRY_WORKSPACE \o " && " \o envVars \o forgePath \o " script " \o scriptPath
    \o " --sig \"run()\""
    \o RpcFlag(resolveRpcUrl(a.rpcUrl))
    \o forge_signer(a, OrDefault(a.broadcast, TRUE))
    \o Flag(OrDefault(a.broadcast, TRUE), " --broadcast")
    \o " -vvv"

deploy_erc20_args ==
    [name : {Some("Token")}, symbol : {Some("TKN")}, initialSupply : OptStr("1000"),
     rpcUrl : OptRpcUrl2, sender : OptStr(Address), privateKey : OptStr("0xARGKEY"),
     broadcast : OptBool]

deploy_erc20_command(a) ==
    DeployCommand(a, "TOKEN_NAME=\"" \o Val(a.name) \o "\" " \o "TOKEN_SYMBOL=\"" \o Val(a.symbol) \o "\" "
                     \o EnvVar("TOKEN_SUPPLY", a.initialSupply),
                  "script/DeployTestERC20.s.sol")

deploy_erc20(c) ==
    /\ Idle(c)
    /\ \E a \in deploy_erc20_args, oi \in ToolOutcomes, o \in ToolOutcomes :
          IF ~checkFoundryInstalled
          THEN /\ calls' = [calls EXCEPT ![c] = NotInstalledCall("deploy_erc20", a)]
               /\ UNCHANGED workspace
          ELSE /\ calls' = [calls EXCEPT ![c] =
                    ScriptCall("deploy_erc20", a, "script/DeployTestERC20.s.sol",
                               deploy_erc20_command(a),
                               "ERC20 deployment script does not exist at ",
                               "ERC20 token deployed successfully using DeployTestERC20.s.sol script:\n",
                               "ERC20 token deployment failed: ", "Error deploying ERC20 token: ",
                               oi, o)]
               /\ workspace' = ensureWorkspaceInitialized(workspace, oi).ws
    /\ UNCHANGED <<Env, procs, res, ex, tree>>

deploy_erc721_args ==
    [name : {Some("Collectible")}, symbol : {Some("NFT")}, tokenId : OptStr("7"),
     rpcUrl : OptRpcUrl2, sender : OptStr(Address), privateKey : OptStr("0xARGKEY"),
     broadcast : OptBool]

deploy_erc721_command(a) ==
    DeployCommand(a, "NFT_NAME=\"" \o Val(a.name) \o "\" " \o "NFT_SYMBOL=\"" \o Val(a.symbol) \o "\" "
                     \o EnvVar("NFT_TOKEN_ID", a.tokenId),
                  "script/DeployERC721.s.sol")

deploy_erc721(c) ==
    /\ Idle(c)
    /\ \E a \in deploy_erc721_args, oi \in ToolOutcomes, o \in ToolOutcomes :
          IF ~checkFoundryInstalled
          THEN /\ calls' = [calls EXCEPT ![c] = NotInstalledCall("deploy_erc721", a)]
               /\ UNCHANGED workspace
          ELSE /\ calls' = [calls EXCEPT ![c] =
                    ScriptCall("deploy_erc721", a, "script/DeployERC721.s.sol",
                               deploy_erc721_command(a),
                               "ERC721 deployment script does not exist at ",
                               "ERC721 token deployed successfully using DeployERC721.s.sol script:\n",
                               "ERC721 token deployment failed: ", "Error deploying ERC721 token: ",
                               oi, o)]
               /\ workspace' = ensureWorkspaceInitialized(workspace, oi).ws
    /\ UNCHANGED <<Env, procs, res, ex, tree>>

deploy_erc1155_args ==
    [name : {Some("Items")}, symbol : {Some("ITM")}, tokenIds : OptStr("0,1,2"),
     quantities : OptStr("10,5,1"), baseUri : OptStr("ipfs://base/"),
     rpcUrl : OptRpcUrl2, sender : OptStr(Address), privateKey : OptStr("0xARGKEY"),
     broadcast : OptBool]

deploy_erc1155_command(a) ==
    DeployCommand(a, "ERC1155_NAME=\"" \o Val(a.name) \o "\" "
                     \o "ERC1155_SYMBOL=\"" \o Val(a.symbol) \o "\" "
                     \o EnvVar("ERC1155_BASE_URI", a.baseUri)
                     \o EnvVar("ERC1155_TOKEN_IDS", a.tokenIds)
                     \o EnvVar("ERC1155_QUANTITIES", a.quantities),
                  "script/DeployERC1155.s.sol")

deploy_erc1155(c) ==
    /\ Idle(c)
    /\ \E a \in deploy_erc1155_args, oi \in ToolOutcomes, o \in ToolOutcomes :
          IF ~checkFoundryInstalled
          THEN /\ calls' = [calls EXCEPT ![c] = NotInstalledCall("deploy_erc1155", a)]
               /\ UNCHANGED workspace
          ELSE /\ calls' = [calls EXCEPT ![c] =
                    ScriptCall("deploy_erc1155", a, "script/DeployERC1155.s.sol",
                               deploy_erc1155_command(a),
                               "ERC1155 deployment script does not exist at ",
                               "ERC1155 token deployed successfully using DeployERC1155.s.sol script:\n",
                               "ERC1155 token deployment failed: ", "Error deploying ERC1155 token: ",
                               oi, o)]
               /\ workspace' = ensureWorkspaceInitialized(workspace, oi).ws
    /\ UNCHANGED <<Env, procs, res, ex, tree>>

(***************************************************************************)
(* Specification of the workspace manager alone: ensureWorkspaceInitialized *)
(* called again and again on every workspace, the calls logged in `calls`. *)
(***************************************************************************)
MaxEnsureCalls == 4

\* a marker or a script needs the directory
Workspaces ==
    { w \in [dir : BOOLEAN, marker : BOOLEAN, scripts : {{}, RepoScripts}, creatable : BOOLEAN] :
        ~w.dir => ~w.marker /\ w.scripts = {} }

InitOutcomes ==
    { [spawned |-> TRUE, code |-> 0, stdout |-> "Initialized forge project\n", stderr |-> "", error |-> ""],
      [spawned |-> TRUE, code |-> 0, stdout |-> "", stderr |-> "warning: nightly build\n", error |-> ""],
      [spawned |-> TRUE, code |-> 1, stdout |-> "", stderr |-> "Error: directory is not empty\n",
       error |-> ""],
      [spawned |-> FALSE, code |-> -1, stdout |-> "", stderr |-> "", error |-> "spawn /bin/sh ENOENT"] }

InitWorkspace ==
    /\ envRpcUrl = ""
    /\ envPrivateKey = ""
    /\ installed = TRUE
    /\ config = NoConfig
    /\ procs = <<>>
    /\ workspace \in Workspaces
    /\ calls = <<>>
    /\ res = ResIdle
    /\ ex = ExIdle
    /\ tree = EmptyTree

\* one call of ensureWorkspaceInitialized; `ex` keeps the executeCommand
\* invocation it made, if any
EnsureWorkspace ==
    /\ Len(calls) < MaxEnsureCalls
    /\ \E oi \in InitOutcomes :
          LET w == ensureWorkspaceInitialized(workspace, oi) IN
          /\ workspace' = w.ws
          /\ calls' = Append(calls,
                [pc |-> "done", tool |-> "ensureWorkspaceInitialized", args |-> <<>>,
                 launched |-> w.launched,
                 command |-> IF w.launched = <<>> THEN Undefined ELSE Some(InitCommand),
                 text |-> IF w.threw THEN w.message ELSE FOUNDRY_WORKSPACE,
                 isError |-> w.threw, failure |-> w.failure])
          /\ ex' = IF w.launched = <<>> THEN ex
                   ELSE [pc |-> "done", command |-> InitCommand, outcome |-> oi,
                         result |-> executeCommand(InitCommand, oi)]
    /\ UNCHANGED <<Env, procs, res, tree>>

NextWorkspace == EnsureWorkspace
SpecWorkspace == InitWorkspace /\ [][NextWorkspace]_vars

(***************************************************************************)
(* File management in the workspace: the write operation of the tool       *)
(* create_solidity_file, as the specification of the workspace manager     *)
(* states it (create, or overwrite only when explicitly permitted).        *)
(***************************************************************************)
FilePaths ==
    { <<"Token.sol">>, <<"src", "Token.sol">>, <<"src", "lib", "Math.sol">>, <<"test", "Token.t.sol">> }
FileContents == { "contract Token {}", "contract Token { uint256 supply; }" }

\* the directories a path lies in, outermost first excluded the root
Parents(path) == { SubSeq(path, 1, n) : n \in 1..(Len(path) - 1) }

Exists(t, path) == path \in DOMAIN t.files

\* the tree with `content` at `path`, the parent directories made on the way
WriteTree(t, path, content) ==
    [dirs |-> t.dirs \cup Parents(path),
     files |-> [q \in DOMAIN t.files \cup {path} |-> IF q = path THEN content ELSE t.files[q]]]

FileExistsError == "Error: file already exists; pass overwrite to replace it"

create_solidity_file_args ==
    [filePath : FilePaths, content : FileContents, overwrite : {Undefined, Some(FALSE), Some(TRUE)}]

create_solidity_file_write_clobber(t, a) ==
    [isError |-> FALSE, text |-> "File written", tree |-> WriteTree(t, a.filePath, a.content)]

\* the write: rejected without side effects when the file is there and
\* overwriting was not asked for
create_solidity_file_write(t, a) ==
    IF Exists(t, a.filePath) /\ ~OrDefault(a.overwrite, FALSE)
    THEN [isError |-> TRUE, text |-> FileExistsError, tree |-> t]
    ELSE [isError |-> FALSE, text |-> "File written", tree |-> WriteTree(t, a.filePath, a.content)]

\* one call of the tool; `calls` keeps the latest call and its result
create_solidity_file(c) ==
    /\ \E a \in create_solidity_file_args :
          LET w == create_solidity_file_write(tree, a) IN
          /\ tree' = w.tree
          /\ calls' = [calls EXCEPT ![c] =
                [pc |-> "done", tool |-> "create_solidity_file", args |-> a, launched |-> <<>>,
                 command |-> Undefined, text |-> w.text, isError |-> w.isError,
                 failure |-> IF w.isError THEN "exists" ELSE ""]]
    /\ UNCHANGED <<Env, procs, workspace, res, ex>>

SeededTree == WriteTree(EmptyTree, <<"Token.sol">>, "contract Token {}")

InitFiles ==
    /\ envRpcUrl = ""
    /\ envPrivateKey = ""
    /\ installed = TRUE
    /\ config = NoConfig
    /\ procs = <<>>
    /\ workspace = [dir |-> TRUE, marker |-> TRUE, scripts |-> {}, creatable |-> TRUE]
    /\ calls = <<IdleCall>>
    /\ res = ResIdle
    /\ ex = ExIdle
    /\ tree \in {EmptyTree, SeededTree}

NextFiles == \E c \in DOMAIN calls : create_solidity_file(c)
SpecFiles == InitFiles /\ [][NextFiles]_vars

(***************************************************************************)
(* Resources                                                               *)
(***************************************************************************)
AnvilStatusUri == "anvil://status"
ContractSourceUri == "contract://{address}/source"
Resources == {AnvilStatusUri, ContractSourceUri}

\* JSON.stringify of a string: quotes, with ", \ and line feeds escaped
JsonEscapeChar(ch) ==
    IF ch = "\"" THEN "\\\"" ELSE IF ch = "\\" THEN "\\\\" ELSE IF ch = "\n" THEN "\\n" ELSE ch
RECURSIVE JsonEscape(_)
JsonEscape(s) ==
    IF Len(s) = 0 THEN ""
    ELSE IF Len(s) = 1 THEN JsonEscapeChar(s)
    ELSE JsonEscape(SubSeq(s, 1, Len(s) \div 2)) \o JsonEscape(SubSeq(s, Len(s) \div 2 + 1, Len(s)))
JsonString(s) == "\"" \o JsonEscape(s) \o "\""

\* JSON.stringify(info, null, 2)
AnvilInfoJson(info) ==
    IF ~info.running THEN "{\n  \"running\": false\n}"
    ELSE "{\n  \"running\": true,\n  \"port\": " \o JsonString(Val(info.port))
         \o ",\n  \"url\": " \o JsonString(Val(info.url)) \o "\n}"

\* server.resource("anvil_status", "anvil://status", ...)
resource_anvil_status(c) ==
    /\ Idle(c)
    /\ calls' = [calls EXCEPT ![c] =
          [pc |-> "done", tool |-> AnvilStatusUri, args |-> <<>>, launched |-> <<PsCommand>>,
           command |-> Undefined, text |-> AnvilInfoJson(getAnvilInfo(procs)),
           isError |-> FALSE, failure |-> ""]]
    /\ UNCHANGED Others

contract_source_command(address) == castPath \o " etherscan-source " \o address

contract_source_text(r) ==
    IF r.success THEN r.message
    ELSE "{\"error\":\"Could not retrieve contract source\",\"details\":"
         \o JsonString(r.message) \o "}"

\* server.resource("contract_source", "contract://{address}/source", ...):
\* a resource result has no error flag
resource_contract_source(c) ==
    /\ Idle(c)
    /\ \E address \in {Address}, o \in ToolOutcomes :
          calls' = [calls EXCEPT ![c] =
              LET command == contract_source_command(address)
                  r == executeCommand(command, o)
              IN [pc |-> "done", tool |-> ContractSourceUri, args |-> [address |-> Some(address)],
                  launched |-> <<command>>, command |-> Some(command),
                  text |-> contract_source_text(r), isError |-> FALSE,
                  failure |-> IF r.success THEN "" ELSE "command"]]
    /\ UNCHANGED Others

(***************************************************************************)
(* The server: one tool call, in every environment it can run in           *)
(***************************************************************************)
RpcConfig ==
    [exists |-> TRUE, readable |-> TRUE,
     sections |-> <<[name |-> "rpc_endpoints", keys |-> <<"mainnet">>]>>]
RepoWorkspace == [dir |-> TRUE, marker |-> TRUE, scripts |-> RepoScripts, creatable |-> TRUE]
BareWorkspace == [dir |-> TRUE, marker |-> FALSE, scripts |-> RepoScripts, creatable |-> TRUE]
LockedWorkspace == [dir |-> FALSE, marker |-> FALSE, scripts |-> {}, creatable |-> FALSE]
RunningNode == anvilPath \o " --port 9545"

Init ==
    /\ envRpcUrl \in EnvRpcUrls
    /\ envPrivateKey \in EnvPrivateKeys
    /\ installed \in BOOLEAN
    /\ config = RpcConfig
    /\ procs \in {<<>>, <<RunningNode>>}
    /\ workspace \in {NoWorkspace, LockedWorkspace, BareWorkspace, RepoWorkspace}
    /\ calls = <<IdleCall>>
    /\ res = ResIdle
    /\ ex = ExIdle
    /\ tree = EmptyTree

Next ==
    \/ \E c \in DOMAIN calls : cast_call(c)
    \/ \E c \in DOMAIN calls : cast_send(c)
    \/ \E c \in DOMAIN calls : cast_balance(c)
    \/ \E c \in DOMAIN calls : cast_receipt(c)
    \/ \E c \in DOMAIN calls : cast_storage(c)
    \/ \E c \in DOMAIN calls : cast_run(c)
    \/ \E c \in DOMAIN calls : cast_logs(c)
    \/ \E c \in DOMAIN calls : cast_sig(c)
    \/ \E c \in DOMAIN calls : cast_4byte(c)
    \/ \E c \in DOMAIN calls : cast_chain(c)
    \/ \E c \in DOMAIN calls : anvil_start(c)
    \/ \E c \in DOMAIN calls : anvil_start_confirm(c)
    \/ \E c \in DOMAIN calls : anvil_stop(c)
    \/ \E c \in DOMAIN calls : anvil_stop_confirm(c)
    \/ \E c \in DOMAIN calls : anvil_status(c)
    \/ \E c \in DOMAIN calls : forge_script(c)
    \/ \E c \in DOMAIN calls : deploy_erc20(c)
    \/ \E c \in DOMAIN calls : deploy_erc721(c)
    \/ \E c \in DOMAIN calls : deploy_erc1155(c)
    \/ \E c \in DOMAIN calls : convert_eth_units(c)
    \/ \E c \in DOMAIN calls : compute_address(c)
    \/ \E c \in DOMAIN calls : resource_anvil_status(c)
    \/ \E c \in DOMAIN calls : resource_contract_source(c)

Spec == Init /\ [][Next]_vars

(***************************************************************************)
(* The node lifecycle with interleaving handlers: two call slots, each     *)
(* handler advancing from one suspension point (await) to the next, other  *)
(* programs of the machine starting and exiting in between.  `ps` is taken *)
(* to read the process table at one instant and to terminate; the kill     *)
(* command is a subprocess the handler waits for.                          *)
(***************************************************************************)
MaxProcs == 2

OtherProgram == "vim notes.txt"
ExternalCommands == {RunningNode, OtherProgram}

NodeArgs ==
    { a \in anvil_start_args :
        /\ a.blockTime = Undefined /\ a.forkUrl = Undefined /\ a.forkBlockNumber = Undefined
        /\ a.accounts = Undefined /\ a.mnemonic = Undefined /\ a.silent = Undefined }

\* anvil_start up to `await getAnvilInfo()`: the probe, then the listing
anvil_start_check(c) ==
    /\ Idle(c)
    /\ \E a \in NodeArgs :
          calls' = [calls EXCEPT ![c] =
              IF ~checkFoundryInstalled THEN NotInstalledCall("anvil_start", a)
              ELSE LET anvilInfo == getAnvilInfo(procs) IN
                   IF anvilInfo.running
                   THEN RefusedCall("anvil_start", a, <<ProbeCommand, PsCommand>>,
                            "Anvil is already running on port " \o Val(anvilInfo.port) \o ".")
                   ELSE [pc |-> "checked", tool |-> "anvil_start", args |-> a,
                         launched |-> <<ProbeCommand, PsCommand>>, command |-> Undefined,
                         text |-> "", isError |-> FALSE, failure |-> ""]]
    /\ UNCHANGED Others

\* a launch that looks at the process table again
anvil_start_launch_serialized(c) ==
    /\ calls[c].pc = "checked"
    /\ LET command == anvil_start_command(calls[c].args) IN
       IF getAnvilInfo(procs).running
       THEN /\ calls' = [calls EXCEPT ![c] =
                  RefusedCall("anvil_start", calls[c].args, calls[c].launched,
                              "Anvil is already running.")]
            /\ UNCHANGED procs
       ELSE /\ calls' = [calls EXCEPT ![c] =
                  [@ EXCEPT !.pc = "started", !.launched = Append(@, command),
                            !.command = Some(command)]]
            /\ procs' = Append(procs, command)
    /\ UNCHANGED <<Env, workspace, res, ex, tree>>

\* the continuation of the running-check: the command is built and handed to
\* exec, whatever the process table holds by now
anvil_start_launch(c) ==
    /\ calls[c].pc = "checked"
    /\ LET command == anvil_start_command(calls[c].args) IN
       \E threw \in BOOLEAN :
          IF threw
          THEN /\ calls' = [calls EXCEPT ![c] =
                     [@ EXCEPT !.pc = "done", !.launched = Append(@, command),
                               !.command = Some(command),
                               !.text = "Error starting Anvil: " \o LaunchError,
                               !.isError = TRUE, !.failure = "launch"]]
               /\ UNCHANGED procs
          ELSE /\ calls' = [calls EXCEPT ![c] =
                     [@ EXCEPT !.pc = "started", !.launched = Append(@, command),
                               !.command = Some(command)]]
               /\ procs' = Append(procs, command)
    /\ UNCHANGED <<Env, workspace, res, ex, tree>>

\* anvil_stop up to `await executeCommand(pkill)`: the listing, then the kill
\* command is launched and awaited
anvil_stop_check(c) ==
    /\ Idle(c)
    /\ calls' = [calls EXCEPT ![c] =
          IF ~getAnvilInfo(procs).running
          THEN RefusedCall("anvil_stop", <<>>, <<PsCommand>>,
                           "No Anvil instance is currently running.")
          ELSE [pc |-> "killing", tool |-> "anvil_stop", args |-> <<>>,
                launched |-> <<PsCommand, KillCommand>>, command |-> Some(KillCommand),
                text |-> "", isError |-> FALSE, failure |-> ""]]
    /\ UNCHANGED Others

\* the kill command terminates: the handler resumes, in its catch block if
\* the command was rejected
anvil_stop_killed(c) ==
    /\ calls[c].pc = "killing"
    /\ \E o \in ToolOutcomes :
          calls' = [calls EXCEPT ![c] =
              IF Rejects(o)
              THEN [@ EXCEPT !.pc = "done",
                             !.text = "Error stopping Anvil: " \o ErrorMessage(KillCommand, o),
                             !.isError = TRUE, !.failure = "kill"]
              ELSE [@ EXCEPT !.pc = "stopping"]]
    /\ UNCHANGED Others

\* the result has been sent: the slot takes the next call
Return(c) ==
    /\ calls[c].pc = "done"
    /\ calls' = [calls EXCEPT ![c] = IdleCall]
    /\ UNCHANGED Others

\* another program of the machine starts a process
ProcessStarts ==
    /\ Len(procs) < MaxProcs
    /\ \E p \in ExternalCommands : procs' = Append(procs, p)
    /\ UNCHANGED <<Env, workspace, calls, res, ex, tree>>

\* a process exits on its own
ProcessExits ==
    /\ \E i \in DOMAIN procs : procs' = SubSeq(procs, 1, i - 1) \o SubSeq(procs, i + 1, Len(procs))
    /\ UNCHANGED <<Env, workspace, calls, res, ex, tree>>

InitNode ==
    /\ envRpcUrl = ""
    /\ envPrivateKey = ""
    /\ installed \in BOOLEAN
    /\ config = NoConfig
    /\ procs \in {<<>>, <<RunningNode>>}
    /\ workspace = RepoWorkspace
    /\ calls = <<IdleCall, IdleCall>>
    /\ res = ResIdle
    /\ ex = ExIdle
    /\ tree = EmptyTree

NextNode ==
    \/ \E c \in DOMAIN calls : anvil_start_check(c)
    \/ \E c \in DOMAIN calls : anvil_start_launch(c)
    \/ \E c \in DOMAIN calls : anvil_start_confirm(c)
    \/ \E c \in DOMAIN calls : anvil_stop_check(c)
    \/ \E c \in DOMAIN calls : anvil_stop_killed(c)
    \/ \E c \in DOMAIN calls : anvil_stop_confirm(c)
    \/ \E c \in DOMAIN calls : anvil_status(c)
    \/ \E c \in DOMAIN calls : resource_anvil_status(c)
    \/ \E c \in DOMAIN calls : Return(c)
    \/ ProcessStarts
    \/ ProcessExits

SpecNode == InitNode /\ [][NextNode]_vars

\* The scheduling of the handlers: a handler that can resume does resume
\* (the event loop runs every continuation and every timer that is due), and
\* the kill command a handler waits for terminates.  Nothing is assumed of
\* the launched node, of other programs, or of when calls arrive.
Resume(c) ==
    \/ anvil_start_launch(c)
    \/ anvil_start_confirm(c)
    \/ anvil_stop_killed(c)
    \/ anvil_stop_confirm(c)

SpecNodeLive == SpecNode /\ \A c \in 1..2 : WF_vars(Resume(c))

(***************************************************************************)
(* Specification of the node monitor alone: getAnvilInfo and the two       *)
(* status queries on every process table of a few programs.                *)
(***************************************************************************)
MaxTable == 2

\* command lines of processes: nodes started by hand, and other programs
NodeNoPort == anvilPath
NodeEqualsPort == anvilPath \o " --port=7545"
EditorOnNotes == "vim anvil-notes.md"
ProxyToNode == "node proxy.js --upstream anvil --port 3000"
TableCommands == {NodeNoPort, RunningNode, NodeEqualsPort, EditorOnNotes, ProxyToNode, OtherProgram}
ProcessTables == UNION { [1..n -> TableCommands] : n \in 0..MaxTable }

\* one call of getAnvilInfo; the record keeps what it returned
GetAnvilInfo(c) ==
    /\ Idle(c)
    /\ calls' = [calls EXCEPT ![c] =
          [pc |-> "done", tool |-> "getAnvilInfo", args |-> <<>>, launched |-> <<PsCommand>>,
           command |-> Undefined, text |-> "", isError |-> FALSE, failure |-> "",
           info |-> getAnvilInfo(procs)]]
    /\ UNCHANGED Others

InitStatus ==
    /\ envRpcUrl = ""
    /\ envPrivateKey = ""
    /\ installed = TRUE
    /\ config = NoConfig
    /\ procs \in ProcessTables
    /\ workspace = RepoWorkspace
    /\ calls = <<IdleCall>>
    /\ res = ResIdle
    /\ ex = ExIdle
    /\ tree = EmptyTree

NextStatus ==
    \/ \E c \in DOMAIN calls : GetAnvilInfo(c)
    \/ \E c \in DOMAIN calls : anvil_status(c)
    \/ \E c \in DOMAIN calls : resource_anvil_status(c)

SpecStatus == InitStatus /\ [][NextStatus]_vars

(***************************************************************************)
(* Properties of the resolver (checked under SpecResolve)                  *)
(***************************************************************************)
Range(q) == { q[i] : i \in DOMAIN q }
ResDone == res.pc = "done"
IsAlias(o) == TruthyStr(o) /\ ~StartsWith(Val(o), "http")
ConfigReadable == config.exists /\ config.readable
HasRpcSection == ConfigReadable /\ \E sec \in Range(config.sections) : sec.name = "rpc_endpoints"
\* the file holds an entry keyed exactly `key` (in whatever section)
HasEntryAnywhere(key) ==
    ConfigReadable /\ \E sec \in Range(config.sections) : key \in Range(sec.keys)
\* the file holds an entry keyed exactly `key` inside [rpc_endpoints]
HasRpcEntry(key) ==
    ConfigReadable /\ \E sec \in Range(config.sections) :
        sec.name = "rpc_endpoints" /\ key \in Range(sec.keys)

\* C4: resolveRpcUrl called with no argument returns the environment default
\* when RPC_URL holds one, and exactly http://localhost:8545 when it holds
\* none; the config file is neither probed nor read in either case.
C4_NoArgumentGivesDefault ==
    (ResDone /\ ~IsDef(res.input)) =>
        /\ res.out.kind = "return"
        /\ res.out.value = (IF envRpcUrl # "" THEN envRpcUrl ELSE "http://localhost:8545")
        /\ ~res.out.accessed
        /\ ~res.out.read

C4_Witness ==
    /\ ResDone /\ ~IsDef(res.input)
    /\ envRpcUrl # ""
    /\ HasRpcSection
    /\ res.out.value = envRpcUrl

\* C5: resolveRpcUrl called with a string that starts with a URL scheme the
\* resolver recognizes (the prefix "http") returns exactly that string,
\* whatever the environment default and the config file are.
C5_UrlShapedReturnedAsIs ==
    (ResDone /\ TruthyStr(res.input) /\ StartsWith(Val(res.input), "http")) =>
        /\ res.out.kind = "return"
        /\ res.out.value = Val(res.input)

C5_Witness ==
    /\ ResDone
    /\ res.input = Some("https://rpc.example/v1")
    /\ envRpcUrl # ""
    /\ HasRpcEntry("mainnet")
    /\ res.out.value = "https://rpc.example/v1"

\* C6: resolveRpcUrl called with a non-URL alias for which the config file
\* holds no entry (or when there is no readable config file) returns the
\* alias unchanged.
C6_AbsentAliasUnchanged ==
    (ResDone /\ IsAlias(res.input) /\ ~HasEntryAnywhere(Val(res.input))) =>
        /\ res.out.kind = "return"
        /\ res.out.value = Val(res.input)

\* C7: when the config file has an rpc_endpoints section, resolveRpcUrl of a
\* non-URL alias returns the value of the entry keyed exactly by the alias
\* inside that section, and never the value of any other entry: if no such
\* entry exists the alias itself comes back.
C7_ExactKeyInRpcSection ==
    (ResDone /\ IsAlias(res.input) /\ HasRpcSection) =>
        /\ res.out.kind = "return"
        /\ res.out.value =
              (IF HasRpcEntry(Val(res.input))
               THEN EntryValue("rpc_endpoints", Val(res.input))
               ELSE Val(res.input))

\* C8 as stated: resolveRpcUrl never fails; for every input string and every
\* filesystem outcome it returns a string, and when the config cannot be
\* read it returns the raw input.
C8_Original ==
    (ResDone /\ IsDef(res.input)) =>
        /\ res.out.kind = "return"
        /\ (~ConfigReadable => res.out.value = Val(res.input))

\* C8 (amended): resolveRpcUrl never fails; for every input and every
\* filesystem outcome it returns a string, and when the config cannot be
\* read it returns the raw input if that input is a non-empty string (an
\* empty input gives the default URL instead).
C8_NeverFails ==
    ResDone =>
        /\ res.out.kind = "return"
        /\ ((~ConfigReadable /\ TruthyStr(res.input)) => res.out.value = Val(res.input))
        /\ ((~ConfigReadable /\ ~TruthyStr(res.input)) => res.out.value = DEFAULT_RPC_URL)

C8_Witness ==
    /\ ResDone
    /\ res.input = Some("mainnet(")
    /\ config.exists /\ ~config.readable
    /\ res.out.read
    /\ res.out.kind = "return"
    /\ res.out.value = "mainnet("

(***************************************************************************)
(* Properties of the executor (checked under SpecExec)                     *)
(***************************************************************************)
ExDone == ex.pc = "done"
ExitedZero == ex.outcome.spawned /\ ex.outcome.code = 0
StderrOnly == ex.outcome.spawned /\ ex.outcome.stderr # "" /\ ex.outcome.stdout = ""

\* C9 as stated: whenever the subprocess exits with status zero,
\* executeCommand returns success=true with message equal to the captured
\* stdout, for every combination of stdout and stderr contents.
C9_Original ==
    (ExDone /\ ExitedZero) =>
        ex.result = [success |-> TRUE, message |-> ex.outcome.stdout]

\* C9 (amended): whenever the subprocess exits with status zero and its
\* output is not stderr-only (non-empty stderr with empty stdout),
\* executeCommand returns success=true with message equal to the captured
\* stdout.
C9_ExitZeroSucceeds ==
    (ExDone /\ ExitedZero /\ ~StderrOnly) =>
        ex.result = [success |-> TRUE, message |-> ex.outcome.stdout]

C9_Witness ==
    /\ ExDone /\ ExitedZero
    /\ ex.outcome.stdout # "" /\ ex.outcome.stderr # ""
    /\ ex.result.success
    /\ ex.result.message = ex.outcome.stdout

\* C10 as stated: whenever the subprocess produces non-empty stderr and
\* empty stdout, executeCommand returns success=false with message equal to
\* the captured stderr, whatever the exit status.
C10_Original ==
    (ExDone /\ StderrOnly) =>
        ex.result = [success |-> FALSE, message |-> ex.outcome.stderr]

\* C10 (amended): whenever the subprocess produces non-empty stderr and
\* empty stdout, executeCommand returns success=false; the message equals
\* the captured stderr when the exit status is zero, and is the exception's
\* message ("Command failed: <command>" followed by the stderr) when the
\* exit status is not zero.
C10_StderrOnlyFails ==
    (ExDone /\ StderrOnly) =>
        /\ ~ex.result.success
        /\ (ex.outcome.code = 0 => ex.result.message = ex.outcome.stderr)
        /\ (ex.outcome.code # 0 =>
               ex.result.message = "Command failed: " \o ex.command \o "\n" \o ex.outcome.stderr)

C10_Witness ==
    /\ ExDone /\ StderrOnly
    /\ ex.outcome.code = 0
    /\ ~ex.result.success
    /\ ex.result.message = ex.outcome.stderr

\* C11: executeCommand never propagates an exception: when the subprocess
\* cannot be launched, or exits with a non-zero status, it returns
\* success=false with message equal to the message of the exception
\* (the launch error, or "Command failed: <command>" followed by stderr).
C11_RejectionIsReturned ==
    (ExDone /\ Rejects(ex.outcome)) =>
        /\ ~ex.result.success
        /\ (~ex.outcome.spawned => ex.result.message = ex.outcome.error)
        /\ (ex.outcome.spawned =>
               ex.result.message = "Command failed: " \o ex.command \o "\n" \o ex.outcome.stderr)

C11_Witness ==
    /\ ExDone
    /\ ~ex.outcome.spawned
    /\ ex.result = [success |-> FALSE, message |-> "spawn /bin/sh ENOENT"]

(***************************************************************************)
(* Properties of the tools (checked under Spec)                            *)
(***************************************************************************)
Called(c) == calls[c].pc # "idle"
Done(c) == calls[c].pc = "done"
Ran(c) == IsDef(calls[c].command)
NeverProbing == {"anvil_stop", "anvil_status"}

\* cmd holds `flag` as a word of its own
HasFlag(cmd, flag) == Includes(cmd \o " ", " " \o flag \o " ")

\* the optional arguments of each tool and the flag each one stands for
RpcTools ==
    {"cast_call", "cast_send", "cast_balance", "cast_receipt", "cast_storage", "cast_logs",
     "cast_chain", "compute_address", "forge_script", "deploy_erc20", "deploy_erc721",
     "deploy_erc1155"}
BlockTools == {"cast_call", "cast_balance", "cast_storage"}
DeployTools == {"deploy_erc20", "deploy_erc721", "deploy_erc1155"}
ScriptTools == {"forge_script"} \cup DeployTools
ArgFlag(tool, arg, flag) == [tool |-> tool, arg |-> arg, flag |-> flag]
ArgFlags ==
    { ArgFlag(t, "rpcUrl", "--rpc-url") : t \in RpcTools }
    \cup { ArgFlag(t, "blockNumber", "--block") : t \in BlockTools }
    \cup { ArgFlag(t, "sender", "--sender") : t \in ScriptTools }
    \cup { ArgFlag(t, "privateKey", "--private-key") : t \in ScriptTools \cup {"cast_send"} }
    \cup { ArgFlag(t, "broadcast", "--broadcast") : t \in ScriptTools }
    \cup { ArgFlag("cast_call", "from", "--from"), ArgFlag("cast_send", "from", "--from"),
           ArgFlag("cast_send", "value", "--value"), ArgFlag("cast_send", "gasLimit", "--gas-limit"),
           ArgFlag("cast_send", "gasPrice", "--gas-price"),
           ArgFlag("cast_send", "confirmations", "--confirmations"),
           ArgFlag("cast_balance", "formatEther", "--ether"),
           ArgFlag("cast_receipt", "confirmations", "--confirmations"),
           ArgFlag("cast_run", "quick", "--quick"), ArgFlag("cast_run", "debug", "--debug"),
           ArgFlag("cast_run", "labels", "--label"),
           ArgFlag("cast_logs", "address", "--address"),
           ArgFlag("cast_logs", "fromBlock", "--from-block"),
           ArgFlag("cast_logs", "toBlock", "--to-block"),
           ArgFlag("compute_address", "nonce", "--nonce"),
           ArgFlag("anvil_start", "port", "--port"),
           ArgFlag("anvil_start", "blockTime", "--block-time"),
           ArgFlag("anvil_start", "forkUrl", "--fork-url"),
           ArgFlag("anvil_start", "forkBlockNumber", "--fork-block-number"),
           ArgFlag("anvil_start", "accounts", "--accounts"),
           ArgFlag("anvil_start", "mnemonic", "--mnemonic"),
           ArgFlag("forge_script", "sig", "--sig"), ArgFlag("forge_script", "verify", "--verify") }

\* the optional arguments that stand for a value when the caller leaves
\* them unset: the default endpoint, port 8545, "run()", broadcast = true
Defaulted ==
    { af \in ArgFlags : af.arg = "rpcUrl" } \cup
    { ArgFlag("anvil_start", "port", "--port"), ArgFlag("forge_script", "sig", "--sig") } \cup
    { ArgFlag(t, "broadcast", "--broadcast") : t \in DeployTools }

\* whether the call broadcasts: broadcast = false / broadcast = true
Broadcasts(c) ==
    OrDefault(calls[c].args.broadcast, calls[c].tool \in DeployTools)
\* the call takes its signing key from somewhere else than `privateKey`:
\* from PRIVATE_KEY, or from a `from` of cast_send that is no address
KeyFromElsewhere(c) ==
    IF calls[c].tool = "cast_send"
    THEN \/ envPrivateKey # ""
         \/ /\ TruthyStr(calls[c].args.from)
            /\ ~(StartsWith(Val(calls[c].args.from), "0x") /\ Len(Val(calls[c].args.from)) = 42)
    ELSE envPrivateKey # "" /\ Broadcasts(c)

Unset(c, af) == calls[c].tool = af.tool /\ ~IsDef(calls[c].args[af.arg])

C2_Original ==
    \A c \in DOMAIN calls : \A af \in ArgFlags :
        Ran(c) /\ Unset(c, af) => ~HasFlag(Val(calls[c].command), af.flag)

\* C2: an optional argument left unset never has its flag in the executed
\* command line, unless the argument has a default (rpcUrl, anvil_start's
\* port, forge_script's sig, the deploy tools' broadcast) or it is
\* privateKey and the key comes from PRIVATE_KEY or cast_send's `from`.
C2_OmissionWithoutDefault ==
    \A c \in DOMAIN calls : \A af \in ArgFlags \ Defaulted :
        Ran(c) /\ Unset(c, af) =>
            \/ ~HasFlag(Val(calls[c].command), af.flag)
            \/ af.arg = "privateKey" /\ KeyFromElsewhere(c)

C2_Witness ==
    \E c \in DOMAIN calls :
        /\ Ran(c) /\ calls[c].tool = "anvil_start"
        /\ \A af \in ArgFlags : af.tool = "anvil_start" => Unset(c, af)
        /\ calls[c].command = Some(anvilPath \o " --port 8545")

\* the flags that take a value
ValueFlags ==
    { af.flag : af \in ArgFlags } \ {"--broadcast", "--verify", "--ether", "--quick", "--debug"}

\* what follows position k of cmd is an empty value: nothing, a
\* separator, or an empty pair of quotes
EmptyValueAt(cmd, k) ==
    \/ k > Len(cmd)
    \/ Ch(cmd, k) = " "
    \/ MatchesAt(cmd \o " ", "\"\" ", k)

\* C3: no executed command line holds a value-taking flag followed by an
\* empty value.
C3_NoEmptyFlagValue ==
    \A c \in DOMAIN calls : \A f \in ValueFlags :
        Ran(c) =>
            LET cmd == Val(calls[c].command) IN
            \A i \in 1..Len(cmd) :
                MatchesAt(cmd \o " ", " " \o f \o " ", i) => ~EmptyValueAt(cmd, i + Len(f) + 2)

\* the process table lists a process that the status query takes for a node
NodeListed(table) == \E i \in DOMAIN table : Includes(table[i], "anvil")
\* the commands of a call that start a node
NodeLaunches(c) ==
    { i \in DOMAIN calls[c].launched : StartsWith(calls[c].launched[i], anvilPath) }

\* C12: anvil_start called while a node is already listed as running ends
\* at once with an error result, launches no node-runner process and leaves
\* the set of running processes unchanged.
C12_StartWhileRunningRefused ==
    [][\A c \in DOMAIN calls :
          (Idle(c) /\ calls'[c].tool = "anvil_start" /\ NodeListed(procs)) =>
              /\ calls'[c].pc = "done"
              /\ calls'[c].isError
              /\ ~IsDef(calls'[c].command)
              /\ \A i \in DOMAIN calls'[c].launched :
                    ~StartsWith(calls'[c].launched[i], anvilPath)
              /\ procs' = procs]_vars

C12_Witness ==
    \E c \in DOMAIN calls :
        /\ Done(c) /\ calls[c].tool = "anvil_start" /\ installed
        /\ calls[c].isError
        /\ calls[c].text = "Anvil is already running on port 9545."
        /\ NodeLaunches(c) = {}
        /\ procs = <<RunningNode>>

\* C13: anvil_stop called while no node is listed as running ends at once
\* with an error result and issues no kill command.
C13_StopWhileNotRunningRefused ==
    [][\A c \in DOMAIN calls :
          (Idle(c) /\ calls'[c].tool = "anvil_stop" /\ ~NodeListed(procs)) =>
              /\ calls'[c].pc = "done"
              /\ calls'[c].isError
              /\ calls'[c].launched = <<PsCommand>>
              /\ ~IsDef(calls'[c].command)
              /\ procs' = procs]_vars

C13_Witness ==
    \E c \in DOMAIN calls :
        /\ Done(c) /\ calls[c].tool = "anvil_stop"
        /\ calls[c].isError
        /\ calls[c].text = "No Anvil instance is currently running."
        /\ KillCommand \notin Range(calls[c].launched)
        /\ procs = <<>>

\* C14: anvil_start, when no node is detected at the running-check, launches
\* the node-runner, then (after the grace period) queries the status again,
\* in that order; it reports success only if that query lists a node and an
\* error otherwise.  When the launch itself throws, the error is reported
\* without a second query.
C14_StartLaunchesThenConfirms ==
    \A c \in DOMAIN calls :
        (calls[c].tool = "anvil_start" /\ Ran(c)) =>
            LET command == Val(calls[c].command)
                launchedOnly == <<ProbeCommand, PsCommand, command>>
            IN /\ command = anvil_start_command(calls[c].args)
               /\ calls[c].pc = "started" => calls[c].launched = launchedOnly
               /\ (Done(c) /\ ~calls[c].isError) =>
                     /\ calls[c].launched = Append(launchedOnly, PsCommand)
                     /\ NodeListed(procs)
                     /\ StartsWith(calls[c].text, "Anvil started successfully on port ")
               /\ (Done(c) /\ calls[c].isError) =>
                     \/ /\ calls[c].launched = Append(launchedOnly, PsCommand)
                        /\ ~NodeListed(procs)
                        /\ calls[c].text = "Failed to start Anvil. Check system logs for details."
                     \/ /\ calls[c].launched = launchedOnly
                        /\ calls[c].text = "Error starting Anvil: " \o LaunchError

C14_Witness ==
    \E c \in DOMAIN calls :
        /\ Done(c) /\ calls[c].tool = "anvil_start" /\ ~calls[c].isError
        /\ calls[c].launched =
              <<ProbeCommand, PsCommand, anvilPath \o " --port 8545", PsCommand>>
        /\ procs = <<anvilPath \o " --port 8545">>
        /\ calls[c].text =
              "Anvil started successfully on port 8545. RPC URL: http://localhost:8545\nProcess ID: 4242"

\* C15: anvil_stop, when a node is detected, issues the kill-by-name
\* command, then (after the grace period) queries the status again, in that
\* order; it reports failure if that query still lists a node and success
\* only if it lists none.  When the kill command itself fails, the error is
\* reported without a second query.
C15_StopKillsThenConfirms ==
    \A c \in DOMAIN calls :
        (calls[c].tool = "anvil_stop" /\ Ran(c)) =>
            /\ calls[c].command = Some(KillCommand)
            /\ calls[c].pc = "stopping" => calls[c].launched = <<PsCommand, KillCommand>>
            /\ (Done(c) /\ ~calls[c].isError) =>
                  /\ calls[c].launched = <<PsCommand, KillCommand, PsCommand>>
                  /\ ~NodeListed(procs)
                  /\ calls[c].text = "Anvil has been stopped successfully."
            /\ (Done(c) /\ calls[c].isError) =>
                  \/ /\ calls[c].launched = <<PsCommand, KillCommand, PsCommand>>
                     /\ NodeListed(procs)
                     /\ calls[c].text = "Failed to stop Anvil. It may still be running."
                  \/ /\ calls[c].launched = <<PsCommand, KillCommand>>
                     /\ StartsWith(calls[c].text, "Error stopping Anvil: Command failed: " \o KillCommand)

C15_Witness ==
    \E c \in DOMAIN calls :
        /\ Done(c) /\ calls[c].tool = "anvil_stop" /\ calls[c].isError
        /\ calls[c].launched = <<PsCommand, KillCommand, PsCommand>>
        /\ procs = <<RunningNode>>
        /\ calls[c].text = "Failed to stop Anvil. It may still be running."

C17_SendWithoutCredentialRefused ==
    \A c \in DOMAIN calls :
        ( /\ Done(c) /\ calls[c].tool = "cast_send" /\ installed
          /\ ~TruthyStr(calls[c].args.privateKey)
          /\ envPrivateKey = ""
          /\ ~TruthyStr(calls[c].args.from) ) =>
            /\ calls[c].isError
            /\ calls[c].text = NO_SENDER_ERROR
            /\ ~Ran(c)
            /\ calls[c].launched = <<ProbeCommand>>

C17_Witness ==
    \E c \in DOMAIN calls :
        /\ Done(c) /\ calls[c].tool = "cast_send" /\ installed
        /\ calls[c].args.privateKey = Some("") /\ envPrivateKey = ""
        /\ calls[c].args.from = Undefined
        /\ calls[c].text = NO_SENDER_ERROR
        /\ ~Ran(c)

\* C18: cast_balance called with no rpcUrl argument and no RPC_URL in the
\* environment runs a balance command for the given address against
\* http://localhost:8545; when the command succeeds the result is
\* "Balance of <address>: <stdout, trimmed> wei" ("ETH" instead of "wei"
\* when formatEther is set) with the error flag unset.
C18_BalanceAgainstLocalNode ==
    \A c \in DOMAIN calls :
        ( /\ Done(c) /\ calls[c].tool = "cast_balance" /\ installed
          /\ calls[c].args.rpcUrl = Undefined /\ envRpcUrl = "" ) =>
            LET address == Val(calls[c].args.address)
                unit == IF calls[c].args.formatEther = Some(TRUE) THEN "ETH" ELSE "wei"
            IN /\ Ran(c)
               /\ StartsWith(Val(calls[c].command),
                             castPath \o " balance " \o address
                             \o " --rpc-url \"http://localhost:8545\"")
               /\ calls[c].launched = <<ProbeCommand, Val(calls[c].command)>>
               /\ calls[c].failure = "" =>
                     /\ ~calls[c].isError
                     /\ calls[c].text = "Balance of " \o address \o ": 42 " \o unit

C18_Witness ==
    \E c \in DOMAIN calls :
        /\ Done(c) /\ calls[c].tool = "cast_balance" /\ installed /\ envRpcUrl = ""
        /\ calls[c].args =
              [address |-> Some(Address), rpcUrl |-> Undefined, blockNumber |-> Undefined,
               formatEther |-> Undefined]
        /\ calls[c].command =
              Some(castPath \o " balance " \o Address \o " --rpc-url \"http://localhost:8545\"")
        /\ ~calls[c].isError
        /\ calls[c].text = "Balance of " \o Address \o ": 42 wei"

(***************************************************************************)
(* Properties of the workspace manager (checked under SpecWorkspace)       *)
(***************************************************************************)
RanInit(call) == InitCommand \in Range(call.launched)

\* C19: ensureWorkspaceInitialized creates the workspace root when it is
\* absent (and can be created), and runs the initialization command exactly
\* when the marker foundry.toml is absent; with the marker present it runs
\* nothing and the marker stays, so no call that follows a successful
\* initialization initializes again.
C19_InitExactlyWithoutMarker ==
    /\ [][Len(calls') = Len(calls) + 1 =>
             LET call == calls'[Len(calls')]
                 rootAvailable == workspace.dir \/ workspace.creatable
             IN /\ rootAvailable => workspace'.dir /\ ~call.isError
                /\ ~rootAvailable => call.isError /\ workspace' = workspace
                /\ RanInit(call) <=> (rootAvailable /\ ~workspace.marker)
                /\ RanInit(call) => call.launched = <<InitCommand>>
                /\ workspace.marker => (workspace'.marker /\ call.launched = <<>>)]_vars
    /\ [](\A i, j \in DOMAIN calls :
             (i < j /\ RanInit(calls[i]) /\ calls[i].failure = "") => calls[j].launched = <<>>)

C19_Witness ==
    /\ Len(calls) = 3
    /\ RanInit(calls[1]) /\ calls[1].failure = "init"
    /\ RanInit(calls[2]) /\ calls[2].failure = ""
    /\ calls[3].launched = <<>> /\ ~calls[3].isError
    /\ workspace.dir /\ workspace.marker

(***************************************************************************)
(* Properties of file management (checked under SpecFiles)                 *)
(***************************************************************************)
Permitted(a) == a.overwrite = Some(TRUE)

\* C20: a write to a path that exists, without explicit overwrite
\* permission, returns an error and leaves the file's contents (and the rest
\* of the tree) unchanged; a write to a path that does not exist creates its
\* parent directories and the file with the given content, without error.
C20_WriteCreatesOrRefuses ==
    [][\A c \in DOMAIN calls :
          LET a == calls'[c].args IN
          /\ (Exists(tree, a.filePath) /\ ~Permitted(a)) =>
                (calls'[c].isError /\ tree' = tree)
          /\ ~Exists(tree, a.filePath) =>
                /\ ~calls'[c].isError
                /\ Exists(tree', a.filePath) /\ tree'.files[a.filePath] = a.content
                /\ Parents(a.filePath) \subseteq tree'.dirs
                /\ \A q \in DOMAIN tree.files : Exists(tree', q) /\ tree'.files[q] = tree.files[q]]_vars

C20_Witness ==
    \E c \in DOMAIN calls :
        /\ calls[c].tool = "create_solidity_file" /\ calls[c].isError
        /\ calls[c].args.filePath = <<"src", "lib", "Math.sol">>
        /\ ~Permitted(calls[c].args)
        /\ Exists(tree, calls[c].args.filePath)
        /\ tree.files[calls[c].args.filePath] # calls[c].args.content
        /\ {<<"src">>, <<"src", "lib">>} \subseteq tree.dirs

(***************************************************************************)
(* Properties of the node lifecycle (checked under SpecNode)               *)
(***************************************************************************)
Launched(c) ==
    /\ calls[c].tool = "anvil_start"
    /\ calls[c].pc \in {"started", "done"}
    /\ calls[c].failure = ""
    /\ IsDef(calls[c].command)

\* C21: nothing serializes the running-check and the launch of anvil_start:
\* a handler that observed "not running" launches its node when it resumes,
\* whatever the process table holds by then (so two interleaved calls can
\* both launch; the state with two launches and no stop is C21_Witness).
C21_CheckAndLaunchNotSerialized ==
    [][\A c \in DOMAIN calls :
          (calls[c].pc = "checked" /\ calls'[c] # calls[c]) =>
              \/ /\ calls'[c].pc = "started"
                 /\ procs' = Append(procs, anvil_start_command(calls[c].args))
              \/ calls'[c].failure = "launch" /\ procs' = procs]_vars

C21_Witness ==
    /\ \A c \in DOMAIN calls : Launched(c) /\ calls[c].pc = "started"
    /\ Len(procs) = 2
    /\ \A i \in DOMAIN procs : \E c \in DOMAIN calls : procs[i] = Val(calls[c].command)

(***************************************************************************)
(* Properties of the signing flags (checked under Spec)                    *)
(***************************************************************************)
\* C22: forge_script and the deploy tools: whenever the privateKey argument
\* is supplied, the executed command carries --private-key <privateKey> and
\* no --sender flag, for every value of broadcast.
C22_PrivateKeyArgumentWins ==
    \A c \in DOMAIN calls :
        (calls[c].tool \in ScriptTools /\ Ran(c) /\ TruthyStr(calls[c].args.privateKey)) =>
            /\ Includes(Val(calls[c].command) \o " ",
                        " --private-key " \o Val(calls[c].args.privateKey) \o " ")
            /\ ~HasFlag(Val(calls[c].command), "--sender")

\* the number of places of cmd where `flag` stands as a word of its own
Occurrences(cmd, flag) ==
    Cardinality({ i \in 1..Len(cmd) : MatchesAt(cmd \o " ", " " \o flag \o " ", i) })
IsAddress(v) == StartsWith(v, "0x") /\ Len(v) = 42
\* cmd holds `flag` followed by `value`
Carries(cmd, flag, value) == Includes(cmd \o " ", " " \o flag \o " " \o value \o " ")

\* C23: every send command cast_send executes carries exactly one signing
\* flag, chosen with priority privateKey argument > PRIVATE_KEY > from
\* argument, the from argument being passed as --from only when it is a
\* 42-character 0x-prefixed address and as --private-key otherwise.
C23_SendCredentialPriority ==
    \A c \in DOMAIN calls :
        (calls[c].tool = "cast_send" /\ Ran(c)) =>
            LET a == calls[c].args
                cmd == Val(calls[c].command)
            IN /\ Occurrences(cmd, "--private-key") + Occurrences(cmd, "--from") = 1
               /\ IF TruthyStr(a.privateKey) THEN Carries(cmd, "--private-key", Val(a.privateKey))
                  ELSE IF envPrivateKey # "" THEN Carries(cmd, "--private-key", envPrivateKey)
                  ELSE /\ TruthyStr(a.from)
                       /\ IF IsAddress(Val(a.from)) THEN Carries(cmd, "--from", Val(a.from))
                          ELSE Carries(cmd, "--private-key", Val(a.from))

C23_Witness ==
    \E c \in DOMAIN calls :
        /\ calls[c].tool = "cast_send" /\ Ran(c)
        /\ calls[c].args.privateKey = Some("0xARGKEY")
        /\ envPrivateKey = "0xENVKEY"
        /\ calls[c].args.from = Some("0xFROMKEY")
        /\ Carries(Val(calls[c].command), "--private-key", "0xARGKEY")
        /\ ~Includes(Val(calls[c].command), "0xENVKEY")
        /\ ~Includes(Val(calls[c].command), "0xFROMKEY")

StatusQueries == {"anvil_status", AnvilStatusUri}
\* what a status result says about the node
ReportsRunning(call) ==
    IF call.tool = "anvil_status" THEN StartsWith(call.text, "Anvil is running on port ")
    ELSE Includes(call.text, "\"running\": true")
ReportsNotRunning(call) ==
    IF call.tool = "anvil_status" THEN call.text = "Anvil is not currently running."
    ELSE call.text = "{\n  \"running\": false\n}"

\* C24: after any sequence of starts, stops and processes of other programs
\* starting and exiting, every status query (tool or resource) reports the
\* node as running exactly when the process table lists it at the time of
\* the query, whatever earlier queries and start/stop calls reported; the
\* query leaves the process table alone.
C24_StatusIsFreshSnapshot ==
    [][\A c \in DOMAIN calls :
          (calls[c].pc = "idle" /\ calls'[c].tool \in StatusQueries) =>
              /\ calls'[c].pc = "done" /\ ~calls'[c].isError
              /\ calls'[c].launched = <<PsCommand>>
              /\ NodeListed(procs) => ReportsRunning(calls'[c])
              /\ ~NodeListed(procs) => ReportsNotRunning(calls'[c])
              /\ procs' = procs]_vars

\* a start reported success, the node exited, and the status says so
C24_Witness ==
    \E c, d \in DOMAIN calls :
        /\ calls[d].tool = "anvil_start" /\ calls[d].pc = "done" /\ ~calls[d].isError
        /\ StartsWith(calls[d].text, "Anvil started successfully")
        /\ calls[c].tool \in StatusQueries /\ calls[c].pc = "done"
        /\ ReportsNotRunning(calls[c])
        /\ ~NodeListed(procs)

(***************************************************************************)
(* Termination of the calls (checked under SpecNodeLive)                   *)
(***************************************************************************)
InFlight(c) == calls[c].pc \notin {"idle", "done"}

\* C25: every call that has begun eventually returns a result, given that
\* the subprocess it waits for terminates; anvil_start returns while the
\* node it launched is still running (a reported success means a node is
\* listed when the call returns), whereas anvil_stop returns a result about
\* its kill command only after that command has ended.
C25_CallsReturn ==
    /\ \A c \in 1..2 : InFlight(c) ~> calls[c].pc = "done"
    /\ [][\A c \in DOMAIN calls :
             /\ ( /\ calls[c].pc = "started" /\ calls'[c].pc = "done" /\ ~calls'[c].isError ) =>
                    NodeListed(procs')
             /\ ( /\ calls[c].pc = "killing" /\ calls'[c] # calls[c] ) =>
                    \/ calls'[c].pc = "stopping"
                    \/ calls'[c].pc = "done" /\ calls'[c].failure = "kill"]_vars

\* a start has returned its success and the node it launched is running
C25_Witness ==
    \E c \in DOMAIN calls :
        /\ calls[c].tool = "anvil_start" /\ calls[c].pc = "done" /\ ~calls[c].isError
        /\ \E i \in DOMAIN procs : procs[i] = Val(calls[c].command)

(***************************************************************************)
(* Properties of the node monitor (checked under SpecStatus)               *)
(***************************************************************************)
\* the process runs the node-runner binary
IsNode(p) == p = anvilPath \/ StartsWith(p, anvilPath \o " ")
\* the listing shows the process
Listed(p) == Includes(p, "anvil") /\ ~Includes(p, "grep")
\* the port argument of a command line (--port <NUM> or --port=<NUM>), 8545
\* when it has none
PortArgument(p) ==
    IF p = RunningNode THEN "9545"
    ELSE IF p = NodeEqualsPort THEN "7545"
    ELSE IF p = ProxyToNode THEN "3000"
    ELSE "8545"
Queried(c) == calls[c].tool = "getAnvilInfo" /\ calls[c].pc = "done"

\* C26: when getAnvilInfo detects a node it reports the port argument of a
\* process it detected (8545 when that process has none) and the url
\* http://localhost:<reported port>; when it detects none, port and url are
\* absent.
C26_PortOfDetectedNode ==
    \A c \in DOMAIN calls :
        Queried(c) =>
            LET info == calls[c].info IN
            IF info.running
            THEN /\ IsDef(info.port) /\ IsDef(info.url)
                 /\ Val(info.url) = "http://localhost:" \o Val(info.port)
                 /\ \E i \in DOMAIN procs :
                       Listed(procs[i]) /\ PortArgument(procs[i]) = Val(info.port)
            ELSE info.port = Undefined /\ info.url = Undefined

\* C27: getAnvilInfo reports running exactly when the process table holds a
\* process that runs the node-runner.
C27_RunningIffNodeProcess ==
    \A c \in DOMAIN calls :
        Queried(c) => (calls[c].info.running <=> \E i \in DOMAIN procs : IsNode(procs[i]))

(***************************************************************************)
(* Properties of forge_script (checked under Spec)                         *)
(***************************************************************************)
\* the call asked for a script that the workspace does not hold
MissingScript(c) ==
    /\ calls[c].tool = "forge_script" /\ Done(c) /\ installed
    /\ Val(calls[c].args.scriptPath) \notin workspace.scripts
NamesMissingPath(c) ==
    calls[c].text = "Script does not exist at " \o FOUNDRY_WORKSPACE \o "/"
                    \o Val(calls[c].args.scriptPath)
RanForgeScript(c) ==
    \E i \in DOMAIN calls[c].launched : Includes(calls[c].launched[i], forgePath \o " script ")

\* C28 as stated: forge_script with a scriptPath that does not exist under
\* the workspace root returns an error result naming the missing path, and
\* runs no `forge script` command.
C28_Original ==
    \A c \in DOMAIN calls :
        MissingScript(c) => (calls[c].isError /\ NamesMissingPath(c) /\ ~RanForgeScript(c))

\* C28: forge_script with a scriptPath that does not exist under the
\* workspace root runs no `forge script` command and returns an error
\* result; the result names the missing path whenever the workspace root
\* exists or could be created, and is the caught mkdir error otherwise.
C28_MissingScriptRefused ==
    \A c \in DOMAIN calls :
        MissingScript(c) =>
            /\ calls[c].isError
            /\ ~RanForgeScript(c)
            /\ ~Ran(c)
            /\ IF workspace.dir THEN NamesMissingPath(c)
               ELSE calls[c].text = "Error executing script: " \o MkdirError

\* the workspace was initialized by the call, the script is still missing
C28_Witness ==
    \E c \in DOMAIN calls :
        /\ MissingScript(c)
        /\ calls[c].args.scriptPath = Some("script/Missing.s.sol")
        /\ InitCommand \in Range(calls[c].launched)
        /\ workspace.marker
        /\ NamesMissingPath(c)

(***************************************************************************)
(* Confidentiality of the signing credential (checked under Spec)          *)
(***************************************************************************)
SigningTools == ScriptTools \cup {"cast_send"}
\* the credentials the call had at hand: its privateKey argument and the
\* PRIVATE_KEY of the environment
Credentials(c) ==
    { Val(calls[c].args.privateKey) : x \in { y \in {1} : TruthyStr(calls[c].args.privateKey) } }
    \cup { envPrivateKey : x \in { y \in {1} : envPrivateKey # "" } }

\* C29: a signing credential that a call placed on its command line does
\* not appear in the text of the call's result, whether the command
\* succeeded or failed (so the text cannot differ between two runs that
\* differ only in the credential).
C29_CredentialNotInResult ==
    \A c \in DOMAIN calls :
        (calls[c].tool \in SigningTools /\ Done(c) /\ Ran(c)) =>
            \A k \in Credentials(c) :
                Carries(Val(calls[c].command), "--private-key", k) => ~Includes(calls[c].text, k)

(***************************************************************************)
(* The workspace after a call (checked under SpecWorkspace)                *)
(***************************************************************************)
\* C30: whenever ensureWorkspaceInitialized has returned the workspace path
\* without throwing, the workspace root exists and holds the marker file
\* foundry.toml, also when the initialization command it ran failed.
C30_ReturnedWorkspaceIsInitialized ==
    (calls # <<>> /\ ~calls[Len(calls)].isError) =>
        /\ calls[Len(calls)].text = FOUNDRY_WORKSPACE
        /\ workspace.dir
        /\ workspace.marker

====
